---- MODULE Spec2Model ----
\* Semantic match & rerank pipeline of the career coach service:
\* the FAISS index built at startup (app/startup/load_embeddings.py) and
\* MatchService.match_vacancies (app/services/match_service.py).
EXTENDS Integers, Sequences, FiniteSets, TLC

VARIABLES
    settings,         \* the Settings object get_settings() caches
    app,              \* position of the lifespan handler: "validate" | "mongo" |
                      \* "seed" | "build" | "serving" (it has yielded), or how
                      \* startup failed: "config_error" | "mongo_error"
    FAISS_AVAILABLE,  \* module flag set by the faiss import
    VAC_EMBED_DIR,    \* the embeddings directory and the batch files in it
    loaded,           \* build_faiss: what its _load_all_embeddings call returned
                      \* (X, ids) or that it raised; NotLoaded before the call
    faiss_index,      \* module global: the built index or None
    vacancy_ids,      \* module global: row position -> vacancy idx
    vacancies,        \* the "vacancies" collection, in natural (storage) order
    pc,               \* position of the match request in flight
    request,          \* MatchVacanciesRequest of the request in flight
    q_vec,            \* query embedding
    search_res,       \* outcome of the search_top_k call of this request
    top_idx_list,     \* ids returned by search_top_k
    ordered,          \* records returned by fetch_vacancies_in_order
    selected,         \* stage1_select: the ids parsed from the model answer by the
                      \* narrowing call that ended last (line 149)
    returned,         \* stage1_select: the list that call returned (line 162);
                      \* both are dropped when match_vacancies builds its response
    stage1_selected,  \* set(stage1_select(...))
    stage2,           \* stage-1 survivors
    stage2_selected,  \* set(stage2_select(...))
    final,            \* stage-2 survivors
    result,           \* MatchedVacancy list built so far
    calls,            \* outbound calls issued by the request in flight, in order
    outcome,          \* how the request ended: response or error
    sessions,         \* the "sessions" collection
    messages,         \* the "messages" collection, per session_id
    profiles,         \* the "profiles" collection
    reqs,             \* chat, session and profile requests: position and locals
    now,              \* what time.time() reads
    request_times,    \* RateLimitMiddleware.request_times
    _last_cleanup,    \* RateLimitMiddleware._last_cleanup
    forwarded,        \* per client key, the arrival times of its limited
                      \* requests that were passed to call_next
    answer,           \* the response to the request the middleware saw last
    career            \* the career-development request in flight or answered

indexVars == <<settings, app, FAISS_AVAILABLE, VAC_EMBED_DIR, loaded, faiss_index, vacancy_ids>>
reqVars   == <<pc, request, q_vec, search_res, top_idx_list, ordered, selected, returned,
               stage1_selected, stage2, stage2_selected, final, result, calls,
               outcome>>
matchVars == <<indexVars, vacancies, reqVars>>
chatVars  == <<sessions, messages, profiles, reqs>>
rateVars  == <<now, request_times, _last_cleanup, forwarded, answer>>
otherVars == <<chatVars, rateVars, career>>
vars      == <<matchVars, otherVars>>

\* ------------------------------------------------------------------ bounds
\* largest k_faiss a modelled request carries (the schema allows 1..2000)
MaxKFaiss == 3
\* largest k_stage1 / k_stage2 a modelled request carries (schema: 1..200, 1..100)
MaxKStage == 2
\* longest "selected" array the narrowing model answers with
MaxSelected == 2

\* ------------------------------------------------------------------ helpers
Min(a, b) == IF a < b THEN a ELSE b
Max(a, b) == IF a > b THEN a ELSE b

\* Python s[:n]
Prefix(s, n) ==
    IF n >= 0 THEN SubSeq(s, 1, Min(n, Len(s)))
    ELSE SubSeq(s, 1, Max(Len(s) + n, 0))

Range(s) == {s[i] : i \in 1..Len(s)}

SeqsUpTo(S, n) == UNION {[1..m -> S] : m \in 0..n}

RECURSIVE Flatten(_)
Flatten(ss) == IF ss = <<>> THEN <<>> ELSE Head(ss) \o Flatten(Tail(ss))

\* ------------------------------------------------------------ settings
\* Settings: app_env, and whether YANDEX_FOLDER_ID, YANDEX_API_KEY,
\* YANDEX_IAM_TOKEN are set and MONGO_URI is set to other than the default
Settings(app_env, folder_id, api_key, iam_token, mongo_uri) ==
    [app_env |-> app_env, yandex_folder_id |-> folder_id, yandex_api_key |-> api_key,
     yandex_iam_token |-> iam_token, mongo_uri |-> mongo_uri]

\* validate_required accepting a configuration without folder id
validate_required_nofolder(st) ==
    (IF ~st.yandex_api_key /\ ~st.yandex_iam_token
     THEN {"Either YANDEX_API_KEY or YANDEX_IAM_TOKEN is required"} ELSE {})
    \cup
    (IF ~st.mongo_uri /\ st.app_env = "production"
     THEN {"MONGO_URI must be set for production"} ELSE {})

\* Settings.validate_required: the errors it collects; it raises ValueError
\* when there is one
validate_required(st) ==
    (IF ~st.yandex_folder_id THEN {"YANDEX_FOLDER_ID is required"} ELSE {})
    \cup
    (IF ~st.yandex_api_key /\ ~st.yandex_iam_token
     THEN {"Either YANDEX_API_KEY or YANDEX_IAM_TOKEN is required"} ELSE {})
    \cup
    (IF ~st.mongo_uri /\ st.app_env = "production"
     THEN {"MONGO_URI must be set for production"} ELSE {})

\* _get_sdk: it raises RuntimeError without folder id or without key and
\* token, and so does every model or embedding call
SdkAvailable(st) ==
    st.yandex_folder_id /\ (st.yandex_api_key \/ st.yandex_iam_token)

\* ------------------------------------------------------- embedding shards
\* One embeddings_batch_<num>.npy with its optional indices_batch_<num>.npy.
\*   num      the characters of <num> in the file name: 0..9 for a digit,
\*            NonDigit for any other character
\*   emb_ok   np.load of the vector file succeeds
\*   emb_1d   the vector array is 1-D (then emb holds that one vector)
\*   emb      the rows of the vector array
\*   ind      "absent" | "unreadable" | "array" | "scalar"
\*   ids      the values of the id array (one value for a scalar)
Vec(a, b) == <<a, b>>

Batch(num, emb_ok, emb_1d, emb, ind, ids) ==
    [num |-> num, emb_ok |-> emb_ok, emb_1d |-> emb_1d, emb |-> emb,
     ind |-> ind, ids |-> ids]

GoodBatch(num, emb, ids) == Batch(num, TRUE, FALSE, emb, "array", ids)

\* a character of a file name that is no digit
NonDigit == 10

\* int(x.stem.split("_")[-1]): the value of a digit string; ValueError for
\* the empty string and for a string with another character
IsNumber(num) == num # <<>> /\ \A i \in 1..Len(num) : num[i] \in 0..9

RECURSIVE ParseInt(_)
ParseInt(num) == IF num = <<>> THEN 0
            ELSE 10 * ParseInt(SubSeq(num, 1, Len(num) - 1)) + num[Len(num)]

NoDirectory  == [exists |-> FALSE, files |-> <<>>]
Directory(files) == [exists |-> TRUE, files |-> files]

\* a < b for strings compared character by character
RECURSIVE LexLess(_, _)
LexLess(a, b) ==
    IF b = <<>> THEN FALSE
    ELSE IF a = <<>> THEN TRUE
    ELSE IF Head(a) # Head(b) THEN Head(a) < Head(b)
    ELSE LexLess(Tail(a), Tail(b))

\* the batch files sorted by their names as strings
RECURSIVE SortByNum_lexicographic(_)
SortByNum_lexicographic(files) ==
    IF files = <<>> THEN <<>>
    ELSE LET m == CHOOSE i \in 1..Len(files) :
                    /\ \A j \in 1..Len(files) : ~LexLess(files[j].num, files[i].num)
                    /\ \A j \in 1..(i-1) : files[j].num # files[i].num
             rest == [j \in 1..(Len(files)-1) |->
                        IF j < m THEN files[j] ELSE files[j+1]]
         IN <<files[m]>> \o SortByNum_lexicographic(rest)

\* sorted(glob, key=lambda x: int(<num>)): a stable sort by batch number
\* (every <num> is a number here; the caller deals with the ValueError)
RECURSIVE SortByNum(_)
SortByNum(files) ==
    IF files = <<>> THEN <<>>
    ELSE LET m == CHOOSE i \in 1..Len(files) :
                    /\ \A j \in 1..Len(files) : ParseInt(files[i].num) <= ParseInt(files[j].num)
                    /\ \A j \in 1..(i-1) : ParseInt(files[j].num) # ParseInt(files[i].num)
             rest == [j \in 1..(Len(files)-1) |->
                        IF j < m THEN files[j] ELSE files[j+1]]
         IN <<files[m]>> \o SortByNum(rest)

\* the per-batch body without the cut to min_size
LoadBatch_notruncate(b) ==
    LET len0     == IF b.emb_1d THEN Len(b.emb[1]) ELSE Len(b.emb)
        indices  == IF b.ind = "absent" THEN [i \in 1..len0 |-> i - 1] ELSE b.ids
        rows     == IF b.emb_1d THEN <<b.emb[1]>> ELSE b.emb
    IN IF ~b.emb_ok \/ b.ind = "unreadable"
       THEN [skipped |-> TRUE, rows |-> <<>>, ids |-> <<>>]
       ELSE [skipped |-> FALSE, rows |-> rows, ids |-> indices]

\* body of the per-batch try block: what one batch appends to arrays / ids,
\* or skipped = TRUE when an exception sends it to `continue`
LoadBatch(b) ==
    LET len0     == IF b.emb_1d THEN Len(b.emb[1]) ELSE Len(b.emb)
        indices  == IF b.ind = "absent" THEN [i \in 1..len0 |-> i - 1] ELSE b.ids
        rows     == IF b.emb_1d THEN <<b.emb[1]>> ELSE b.emb
        min_size == Min(Len(rows), Len(indices))
    IN IF ~b.emb_ok \/ b.ind = "unreadable"
       THEN [skipped |-> TRUE, rows |-> <<>>, ids |-> <<>>]
       ELSE [skipped |-> FALSE, rows |-> Prefix(rows, min_size),
             ids |-> Prefix(indices, min_size)]

\* build_faiss has not called the loader
NotLoaded == [called |-> FALSE, raised |-> "no", X |-> <<>>, ids |-> <<>>]

\* the loader raising exc
LoadError(exc) == [called |-> TRUE, raised |-> exc, X |-> <<>>, ids |-> <<>>]

\* _load_all_embeddings: the matrix X and the id list, or the exception:
\* the ValueError of int() on a file name that carries no number, the
\* FileNotFoundError (no batch file), the ValueError "No embeddings loaded",
\* the ValueError of np.vstack on batches of different dimension
_load_all_embeddings(dir) ==
    IF \E i \in 1..Len(dir.files) : ~IsNumber(dir.files[i].num)
    THEN LoadError("ValueError: int")
    ELSE
    LET files  == SortByNum(dir.files)
        arrays == SelectSeq([i \in 1..Len(files) |-> LoadBatch(files[i])],
                            LAMBDA l : ~l.skipped)
        X      == Flatten([i \in 1..Len(arrays) |-> arrays[i].rows])
        ids    == Flatten([i \in 1..Len(arrays) |-> arrays[i].ids])
        dims   == {Len(b.emb[1]) : b \in {files[i] : i \in {j \in 1..Len(files) :
                        ~LoadBatch(files[j]).skipped /\ files[j].emb # <<>>}}}
    IN IF files = <<>> THEN LoadError("FileNotFoundError")
       ELSE IF arrays = <<>> THEN LoadError("ValueError: none loaded")
       ELSE IF Cardinality(dims) > 1 THEN LoadError("ValueError: vstack")
       ELSE [called |-> TRUE, raised |-> "no", X |-> X, ids |-> ids]

\* ------------------------------------------------------------ vector index
None == [built |-> FALSE, ntotal |-> 0, d |-> 0]

\* build_faiss assigning the id list before the index is complete and
\* leaving it behind when index.add raises
build_faiss_idsfirst(available, dir, add_ok) ==
    IF ~available \/ ~dir.exists
    THEN [faiss_index |-> None, vacancy_ids |-> <<>>, loaded |-> NotLoaded]
    ELSE LET ld == _load_all_embeddings(dir)
         IN IF ld.raised # "no" \/ Len(ld.ids) = 0
            THEN [faiss_index |-> None, vacancy_ids |-> <<>>, loaded |-> ld]
            ELSE IF ~add_ok
            THEN [faiss_index |-> None, vacancy_ids |-> ld.ids, loaded |-> ld]
            ELSE [faiss_index |-> [built |-> TRUE, ntotal |-> Len(ld.X),
                                   d |-> Len(ld.X[1])],
                  vacancy_ids |-> ld.ids, loaded |-> ld]

\* the module globals (faiss_index, vacancy_ids) build_faiss leaves behind,
\* and what its loader call gave; add_ok = FALSE when normalising the
\* matrix, constructing the index or index.add raises
build_faiss(available, dir, add_ok) ==
    IF ~available \/ ~dir.exists
    THEN [faiss_index |-> None, vacancy_ids |-> <<>>, loaded |-> NotLoaded]
    ELSE LET ld == _load_all_embeddings(dir)
         IN IF ld.raised # "no" \/ Len(ld.ids) = 0 \/ ~add_ok
            THEN [faiss_index |-> None, vacancy_ids |-> <<>>, loaded |-> ld]
            ELSE [faiss_index |-> [built |-> TRUE, ntotal |-> Len(ld.X),
                                   d |-> Len(ld.X[1])],
                  vacancy_ids |-> ld.ids, loaded |-> ld]

\* np.linalg.norm(query_vec) == 0
RECURSIVE SumSq(_)
SumSq(v) == IF v = <<>> THEN 0 ELSE Head(v) * Head(v) + SumSq(Tail(v))

\* What the HNSW graph may hand back for a request of n neighbours over an
\* index of ntotal rows: n row positions, -1 where it found no neighbour,
\* no row twice.  The approximate ranking itself is left open.
GraphAnswers(n, ntotal) ==
    {a \in [1..n -> -1..(ntotal - 1)] :
        \A i, j \in 1..n : (i # j /\ a[i] >= 0) => a[i] # a[j]}

\* search_top_k answering an unbuilt index with an empty list
search_top_k_noguard(available, index, ids, query_vec, k, indices) ==
    IF ~available \/ ~index.built \/ Len(ids) = 0
    THEN [raised |-> "no", ids |-> <<>>, asked |-> 0, indices |-> <<>>]
    ELSE IF SumSq(query_vec) = 0
    THEN [raised |-> "ValueError", ids |-> <<>>, asked |-> 0, indices |-> <<>>]
    ELSE IF Len(query_vec) # index.d
    THEN [raised |-> "AssertionError", ids |-> <<>>, asked |-> 0, indices |-> <<>>]
    ELSE LET hits == SelectSeq(indices, LAMBDA p : 0 <= p /\ p < Len(ids))
         IN [raised |-> "no", ids |-> [i \in 1..Len(hits) |-> ids[hits[i] + 1]],
             asked |-> Min(k, Len(ids)), indices |-> indices]

\* search_top_k testing the query norm before the index
search_top_k_normfirst(available, index, ids, query_vec, k, indices) ==
    IF SumSq(query_vec) = 0
    THEN [raised |-> "ValueError", ids |-> <<>>, asked |-> 0, indices |-> <<>>]
    ELSE IF ~available \/ ~index.built \/ Len(ids) = 0
    THEN [raised |-> "RuntimeError", ids |-> <<>>, asked |-> 0, indices |-> <<>>]
    ELSE IF Len(query_vec) # index.d
    THEN [raised |-> "AssertionError", ids |-> <<>>, asked |-> 0, indices |-> <<>>]
    ELSE LET hits == SelectSeq(indices, LAMBDA p : 0 <= p /\ p < Len(ids))
         IN [raised |-> "no", ids |-> [i \in 1..Len(hits) |-> ids[hits[i] + 1]],
             asked |-> Min(k, Len(ids)), indices |-> indices]

\* search_top_k without the zero-norm test: the division yields a vector the
\* graph still ranks
search_top_k_nozerotest(available, index, ids, query_vec, k, indices) ==
    IF ~available \/ ~index.built \/ Len(ids) = 0
    THEN [raised |-> "RuntimeError", ids |-> <<>>, asked |-> 0, indices |-> <<>>]
    ELSE IF Len(query_vec) # index.d
    THEN [raised |-> "AssertionError", ids |-> <<>>, asked |-> 0, indices |-> <<>>]
    ELSE LET hits == SelectSeq(indices, LAMBDA p : 0 <= p /\ p < Len(ids))
         IN [raised |-> "no", ids |-> [i \in 1..Len(hits) |-> ids[hits[i] + 1]],
             asked |-> Min(k, Len(ids)), indices |-> indices]

\* search_top_k mapping every returned position through the id list: Python
\* reads ids[-1] as the last id
search_top_k_nofilter(available, index, ids, query_vec, k, indices) ==
    IF ~available \/ ~index.built \/ Len(ids) = 0
    THEN [raised |-> "RuntimeError", ids |-> <<>>, asked |-> 0, indices |-> <<>>]
    ELSE IF SumSq(query_vec) = 0
    THEN [raised |-> "ValueError", ids |-> <<>>, asked |-> 0, indices |-> <<>>]
    ELSE IF Len(query_vec) # index.d
    THEN [raised |-> "AssertionError", ids |-> <<>>, asked |-> 0, indices |-> <<>>]
    ELSE [raised |-> "no",
          ids |-> [i \in 1..Len(indices) |->
                     IF indices[i] >= 0 THEN ids[indices[i] + 1]
                     ELSE ids[Len(ids) + indices[i] + 1]],
          asked |-> Min(k, Len(ids)), indices |-> indices]

\* search_top_k(query_vec, k): the outcome, the number of neighbours it asks
\* faiss_index.search for (asked), and the row positions the graph answered
\* with (indices)
search_top_k(available, index, ids, query_vec, k, indices) ==
    IF ~available \/ ~index.built \/ Len(ids) = 0
    THEN [raised |-> "RuntimeError", ids |-> <<>>, asked |-> 0, indices |-> <<>>]
    ELSE IF SumSq(query_vec) = 0
    THEN [raised |-> "ValueError", ids |-> <<>>, asked |-> 0, indices |-> <<>>]
    ELSE IF Len(query_vec) # index.d
    THEN [raised |-> "AssertionError", ids |-> <<>>, asked |-> 0, indices |-> <<>>]
    ELSE LET hits == SelectSeq(indices, LAMBDA p : 0 <= p /\ p < Len(ids))
         IN [raised |-> "no", ids |-> [i \in 1..Len(hits) |-> ids[hits[i] + 1]],
             asked |-> Min(k, Len(ids)), indices |-> indices]

\* -------------------------------------------------------- vacancy store
\* The six seniority labels (Стажер, Руководитель, Эксперт, Продвинутый,
\* Средний, Начальный).
Levels == {"Intern", "Head", "Expert", "Advanced", "Mid", "Entry"}

\* A vacancy record: its idx and the keywords of the classifier that occur in
\* the lower-cased text of its title, description, experience and key_skills.
Doc(idx, kw) == [idx |-> idx, kw |-> kw]

\* the idx values of a list of records, in its order
IdxOf(docs) == [n \in 1..Len(docs) |-> docs[n].idx]

\* VacanciesRepository.find_by_ids: {"idx": {"$in": idx_list}}, natural order
find_by_ids(coll, idx_list) ==
    SelectSeq(coll, LAMBDA d : d.idx \in Range(idx_list))

\* fetch_vacancies_in_order returning the records as the store delivers them
fetch_vacancies_unordered(coll, top_idx) == find_by_ids(coll, top_idx)

\* MatchService.fetch_vacancies_in_order
fetch_vacancies_in_order(coll, top_idx) ==
    LET docs   == find_by_ids(coll, top_idx)
        keys   == {docs[i].idx : i \in 1..Len(docs)}
        \* dict comprehension: the last record of an idx wins
        by_idx == [k \in keys |->
                     docs[CHOOSE i \in 1..Len(docs) :
                            /\ docs[i].idx = k
                            /\ \A j \in (i+1)..Len(docs) : docs[j].idx # k]]
        hits   == SelectSeq(top_idx, LAMBDA i : i \in keys)
    IN [n \in 1..Len(hits) |-> by_idx[hits[n]]]

\* ------------------------------------------------------- staged selector
\* One item of the "selected" array of the model's JSON answer.
Item(t, v) == [t |-> t, v |-> v]
\* isinstance(x, int): Python's bool is a subclass of int
IsInstanceInt(x) == x.t \in {"int", "bool"}

\* What run_structured_completion hands to stage1_select:
\*   raise            the SDK call failed; re-raised as RuntimeError
\*   empty            "" (no alternatives or empty text)
\*   notjson          text json.loads rejects with JSONDecodeError
\*   toodeep          text nested beyond the recursion limit: json.loads
\*                    raises RecursionError, a subclass of RuntimeError
\*   nonobject        JSON array / number / string / null at top level
\*   noselected       object without "selected"
\*   selected_null, selected_number, selected_string, selected_object
\*   selected_list    object with a list under "selected" (items)
Reply(kind, items) == [kind |-> kind, items |-> items]

\* stage1_select without the final [:limit]
stage1_select_uncapped(reply, limit) ==
    IF reply.kind \in {"raise", "toodeep"}
    THEN [raised |-> TRUE, selected |-> <<>>, returned |-> <<>>]
    ELSE IF reply.kind = "selected_list"
    THEN LET ints == SelectSeq(reply.items, IsInstanceInt)
             sel  == [i \in 1..Len(ints) |-> ints[i].v]
         IN [raised |-> FALSE, selected |-> sel, returned |-> sel]
    ELSE [raised |-> FALSE, selected |-> <<>>, returned |-> <<>>]

\* stage1_select treating a failed model call like a parse failure
stage1_select_swallow(reply, limit) ==
    IF reply.kind = "selected_list"
    THEN LET ints == SelectSeq(reply.items, IsInstanceInt)
             sel  == [i \in 1..Len(ints) |-> ints[i].v]
         IN [raised |-> FALSE, selected |-> sel, returned |-> Prefix(sel, limit)]
    ELSE [raised |-> FALSE, selected |-> <<>>, returned |-> <<>>]

\* MatchService.stage1_select, given the outcome of the model call: whether it
\* raises, its local `selected` and the list it returns
stage1_select(reply, limit) ==
    IF reply.kind \in {"raise", "toodeep"}
    THEN [raised |-> TRUE, selected |-> <<>>, returned |-> <<>>]
    ELSE IF reply.kind = "selected_list"
    THEN LET ints == SelectSeq(reply.items, IsInstanceInt)
             sel  == [i \in 1..Len(ints) |-> ints[i].v]
         IN [raised |-> FALSE, selected |-> sel, returned |-> Prefix(sel, limit)]
    ELSE [raised |-> FALSE, selected |-> <<>>, returned |-> <<>>]

\* MatchService.stage2_select
stage2_select(reply, limit) == stage1_select(reply, limit)

\* survivors without the `or candidates[:limit]` fallback
Survivors_nofallback(candidates, chosen, limit) ==
    Prefix(SelectSeq(candidates, LAMBDA d : d.idx \in chosen), limit)

\* survivors whose fallback also fires on a short selection
Survivors_fill(candidates, chosen, limit) ==
    LET picked == Prefix(SelectSeq(candidates, LAMBDA d : d.idx \in chosen), limit)
    IN IF Len(picked) >= Min(limit, Len(candidates)) THEN picked
       ELSE Prefix(candidates, limit)

\* survivors whose fallback keeps one candidate too few
Survivors_shortfallback(candidates, chosen, limit) ==
    LET picked == Prefix(SelectSeq(candidates, LAMBDA d : d.idx \in chosen), limit)
    IN IF picked # <<>> THEN picked ELSE Prefix(candidates, limit - 1)

\* match_vacancies, lines 384-387 and 402-405:
\*   [d for d in candidates if d.idx in chosen][:limit] or candidates[:limit]
\* survivors re-sorted by ascending idx
Survivors_sorted(candidates, chosen, limit) ==
    LET picked == SelectSeq(candidates, LAMBDA d : d.idx \in chosen)
        kept   == IF Prefix(picked, limit) # <<>> THEN Prefix(picked, limit)
                  ELSE Prefix(candidates, limit)
        rank(n) == Cardinality({m \in 1..Len(kept) :
                      kept[m].idx < kept[n].idx \/ (kept[m].idx = kept[n].idx /\ m < n)})
    IN [k \in 1..Len(kept) |-> kept[CHOOSE n \in 1..Len(kept) : rank(n) = k - 1]]

Survivors(candidates, chosen, limit) ==
    LET picked == Prefix(SelectSeq(candidates, LAMBDA d : d.idx \in chosen), limit)
    IN IF picked # <<>> THEN picked ELSE Prefix(candidates, limit)

\* ---------------------------------------------------- attribute classifier
\* the keyword lists of lines 231-247, Russian words transliterated
Keywords ==
    [Intern   |-> {"stazher", "intern", "trainee", "bez opyta", "obuchenie"},
     Head     |-> {"rukovoditel", "direktor", "head", "director", "chief", "cfo",
                   "ceo", "cdo", "lead"},
     Expert   |-> {"ekspert", "expert", "principal", "staff"},
     Advanced |-> {"senior", "starshiy", "vedushchiy", "opyt ot 3", "opyt ot 5"},
     Mid      |-> {"middle", "sredniy", "opyt ot 1", "opyt ot 2"},
     Entry    |-> {"junior", "mladshiy", "nachalnyy", "entry"}]

\* keyword groups in the order the code tests them
KeywordOrder == <<"Intern", "Head", "Expert", "Advanced", "Mid", "Entry">>
\* valid_levels, the order in which the model's answer is scanned
valid_levels == <<"Intern", "Entry", "Mid", "Advanced", "Expert", "Head">>

FirstIn(order, S) == order[CHOOSE i \in 1..Len(order) :
                             /\ order[i] \in S
                             /\ \A j \in 1..(i-1) : order[j] \notin S]

\* answer of run_text_completion to the classifier prompt: the call fails, or
\* returns a text that contains the labels in `mentions`
TextReply(raised, mentions) == [raised |-> raised, mentions |-> mentions]

\* groups with a keyword in the vacancy's text
Matching(vacancy) ==
    {g \in Range(KeywordOrder) : Keywords[g] \cap vacancy.kw # {}}

\* the classifier testing the Head keywords before the Intern keywords
determine_seniority_level_headfirst(vacancy, reply) ==
    IF Matching(vacancy) # {}
    THEN [level |-> FirstIn(<<"Head", "Intern", "Expert", "Advanced", "Mid", "Entry">>,
                            Matching(vacancy)),
          called |-> FALSE, raised |-> FALSE]
    ELSE IF reply.raised \/ reply.mentions = {}
    THEN [level |-> "Mid", called |-> TRUE, raised |-> FALSE]
    ELSE [level |-> FirstIn(valid_levels, reply.mentions), called |-> TRUE,
          raised |-> FALSE]

\* the classifier letting the RuntimeError of the model call through
determine_seniority_level_reraise(vacancy, reply) ==
    IF Matching(vacancy) # {}
    THEN [level |-> FirstIn(KeywordOrder, Matching(vacancy)),
          called |-> FALSE, raised |-> FALSE]
    ELSE IF reply.raised
    THEN [level |-> "", called |-> TRUE, raised |-> TRUE]
    ELSE IF reply.mentions = {}
    THEN [level |-> "Mid", called |-> TRUE, raised |-> FALSE]
    ELSE [level |-> FirstIn(valid_levels, reply.mentions), called |-> TRUE,
          raised |-> FALSE]

\* MatchService.determine_seniority_level: the label, whether the model was
\* called, and whether the method raises (it catches every exception of the
\* model call)
determine_seniority_level(vacancy, reply) ==
    IF Matching(vacancy) # {}
    THEN [level |-> FirstIn(KeywordOrder, Matching(vacancy)),
          called |-> FALSE, raised |-> FALSE]
    ELSE IF reply.raised \/ reply.mentions = {}
    THEN [level |-> "Mid", called |-> TRUE, raised |-> FALSE]
    ELSE [level |-> FirstIn(valid_levels, reply.mentions), called |-> TRUE,
          raised |-> FALSE]

\* ------------------------------------------------------------ environment
\* shard directories the startup build may find on disk
Directories ==
    { NoDirectory,
      Directory(<<>>),
      \* glob order differs from batch order
      Directory(<<GoodBatch(<<2>>, <<Vec(1, 1)>>, <<3>>),
                  GoodBatch(<<1>>, <<Vec(1, 0), Vec(0, 1)>>, <<1, 2>>)>>),
      \* more vectors than ids, the same id twice
      Directory(<<GoodBatch(<<1>>, <<Vec(1, 0), Vec(0, 1), Vec(1, 1)>>, <<2, 2>>)>>),
      \* an unreadable batch next to a 1-D vector array without id file
      Directory(<<Batch(<<1>>, FALSE, FALSE, <<>>, "absent", <<>>),
                  Batch(<<2>>, TRUE, TRUE, <<<<1>>>>, "absent", <<>>)>>),
      \* batches of different dimension
      Directory(<<GoodBatch(<<1>>, <<Vec(1, 0)>>, <<1>>),
                  GoodBatch(<<2>>, <<<<1>>>>, <<2>>)>>) }

\* environments the process may be started in
Environments ==
    { \* IAM token instead of API key
      Settings("production", TRUE, FALSE, TRUE, TRUE),
      \* no folder id
      Settings("production", FALSE, TRUE, FALSE, TRUE),
      \* the defaults of APP_ENV and MONGO_URI
      Settings("development", FALSE, TRUE, FALSE, FALSE),
      \* neither API key nor IAM token
      Settings("production", TRUE, FALSE, FALSE, TRUE),
      Settings("development", TRUE, FALSE, FALSE, TRUE),
      \* credentials set, MONGO_URI left at its default
      Settings("production", TRUE, TRUE, TRUE, FALSE) }

\* contents of the vacancies collection
VacancyStores ==
    { <<>>,
      <<Doc(3, {}), Doc(2, {"intern", "lead"}), Doc(1, {"middle"})>>,
      <<Doc(2, {"expert"}), Doc(4, {}), Doc(2, {})>> }

\* embeddings the embedding service may return
QueryVectors == { Vec(0, 0), Vec(-1, 1) }

\* answers of the narrowing model
\* (id 3 is a candidate of some requests and foreign to others; true is the
\* boolean the code takes for the id 1)
Items == {Item("int", 1), Item("int", 3), Item("bool", 1), Item("str", 0)}

Replies ==
    {Reply(k, <<>>) : k \in {"raise", "empty", "notjson", "toodeep", "nonobject",
                              "noselected", "selected_null", "selected_number",
                              "selected_string", "selected_object"}}
    \cup {Reply("selected_list", l) : l \in SeqsUpTo(Items, MaxSelected)}

\* answers of the model to the classifier prompt
TextReplies ==
    { TextReply(TRUE, {}), TextReply(FALSE, {}), TextReply(FALSE, {"Entry", "Head"}) }

\* ------------------------------------------------------------------- state
NoRequest == [k_faiss |-> 0, k_stage1 |-> 0, k_stage2 |-> 0]
NoSearch  == [raised |-> "no", ids |-> <<>>, asked |-> 0, indices |-> <<>>]
NoOutcome == [kind |-> "none", at |-> "", error |-> "", top_idx |-> <<>>,
              stage1 |-> {}, result |-> <<>>]

Error(at, msg) == [kind |-> "error", at |-> at, error |-> msg,
                   top_idx |-> <<>>, stage1 |-> {}, result |-> <<>>]

\* MatchVacanciesResponse(top_idx, stage1, result)
MatchVacanciesResponse(top_idx, stage1, res) ==
    [kind |-> "response", at |-> "", error |-> "", top_idx |-> top_idx,
     stage1 |-> stage1, result |-> res]

\* an outbound call: the method issuing it, the function called, whether it
\* returned (ok) or raised, for the classifier's call the labels the
\* returned text contains, and for a narrowing call the idx values of the
\* records its context text lists
Call(by, fn, ok) == [by |-> by, fn |-> fn, ok |-> ok, mentions |-> {}, input |-> <<>>]

FreshRequest ==
    /\ q_vec = <<>>
    /\ search_res = NoSearch
    /\ top_idx_list = <<>>
    /\ ordered = <<>>
    /\ selected = <<>>
    /\ returned = <<>>
    /\ stage1_selected = {}
    /\ stage2 = <<>>
    /\ stage2_selected = {}
    /\ final = <<>>
    /\ result = <<>>
    /\ calls = <<>>
    /\ outcome = NoOutcome

\* ------------------------------------- state of the other request handlers
\* sessions, messages and profiles collections, rate limiter, career request
\* requests in flight at once
MaxRequests == 2

\* routers/chat.py line 76: the longest text a chat request may carry
MaxTextLength == 5000
\* build_profile line 242: fewer messages than this is "not finished"
MinMessages == 4
\* build_profile line 261: from this many messages on, done is not required
EnoughMessages == 8

Users == {"u1", "u2"}
\* the session_id path parameter: two sessions, the id of no session, a blank id
SessionIds == {"s1", "s2", "s0", " "}

Session(session_id, user_id) == [session_id |-> session_id, user_id |-> user_id]
\* the None a find_one returns
NoDoc == [session_id |-> "", user_id |-> ""]

\* The messages of one session, as far as the handlers read them: how many
\* there are, whether one has role assistant, and created_at and done of the
\* assistant message with the greatest created_at.
History(count, assistant, last_at, done) ==
    [count |-> count, assistant |-> assistant, last_at |-> last_at, done |-> done]

NoMessages == History(0, FALSE, 0, FALSE)

\* the text of a ChatRequest: its length and whether strip() leaves nothing
Text(len, blank) == [len |-> len, blank |-> blank]
NoText == Text(0, TRUE)
Texts == { Text(0, TRUE), Text(1, TRUE),
           Text(MaxTextLength, FALSE), Text(MaxTextLength + 1, FALSE) }
\* the chat requests that arrive: the longest valid text for each id, and
\* each text for session s1
ChatInputs == {<<s, Text(MaxTextLength, FALSE)>> : s \in SessionIds}
              \cup {<<"s1", t>> : t \in Texts}

\* a request: the handler (op), its path parameter and body, its position, the
\* locals it carries across awaits, and its response once it is done
NoReq == [op |-> "none", sid |-> "", text |-> NoText, pc |-> "idle", at |-> 0,
          session |-> NoDoc, all_msgs |-> 0, last_done |-> FALSE, data |-> "",
          called |-> FALSE,
          status |-> 0, detail |-> ""]

\* nothing of this part is in use
ChatQuiet ==
    /\ sessions = {}
    /\ messages = [s \in SessionIds |-> NoMessages]
    /\ profiles = {}
    /\ reqs = [i \in 1..MaxRequests |-> NoReq]

\* client keys _get_client_ip may return
Clients == {"10.0.0.1", "unknown"}
\* dispatch line 72: paths that are never limited
ExemptPaths == {"/health", "/ready", "/debug", "/", "/docs", "/openapi.json"}
Paths == {"/health", "/v1/chat/s1"}

NoAnswer == [client |-> "", path |-> "", status |-> 0]

RateQuiet ==
    /\ now = 0
    /\ request_times = [ip \in Clients |-> <<>>]
    /\ _last_cleanup = 0
    /\ forwarded = [ip \in Clients |-> <<>>]
    /\ answer = NoAnswer

NoCareer == [pc |-> "idle", sid |-> "", status |-> 0, detail |-> "",
             future_vacancies |-> <<>>]

CareerQuiet == career = NoCareer

\* no match request in flight, the application serving without an index
MatchQuiet ==
    /\ settings = Settings("production", TRUE, FALSE, TRUE, TRUE)
    /\ app = "serving"
    /\ FAISS_AVAILABLE = FALSE
    /\ VAC_EMBED_DIR = NoDirectory
    /\ loaded = NotLoaded
    /\ faiss_index = None
    /\ vacancy_ids = <<>>
    /\ vacancies = <<>>
    /\ pc = "idle"
    /\ request = NoRequest
    /\ FreshRequest

OthersQuiet == ChatQuiet /\ RateQuiet /\ CareerQuiet

Init ==
    /\ OthersQuiet
    /\ settings \in Environments
    /\ app = "validate"
    /\ FAISS_AVAILABLE \in BOOLEAN
    /\ VAC_EMBED_DIR \in Directories
    /\ loaded = NotLoaded
    /\ faiss_index = None
    /\ vacancy_ids = <<>>
    /\ vacancies \in VacancyStores
    /\ pc = "idle"
    /\ request = NoRequest
    /\ FreshRequest

\* ----------------------------------------------------------------- actions
\* lifespan, lines 44-57: validate_required; its ValueError is re-raised in
\* production and logged otherwise
ValidateSettings ==
    /\ app = "validate"
    /\ app' = IF validate_required(settings) # {} /\ settings.app_env = "production"
              THEN "config_error" ELSE "mongo"
    /\ UNCHANGED <<otherVars, settings, FAISS_AVAILABLE, VAC_EMBED_DIR, loaded, faiss_index,
                   vacancy_ids, vacancies, reqVars>>

\* lifespan, step 1: init_mongo and ensure_indexes; a failure is re-raised
InitMongo(ok) ==
    /\ app = "mongo"
    /\ app' = IF ok THEN "seed" ELSE "mongo_error"
    /\ UNCHANGED <<otherVars, settings, FAISS_AVAILABLE, VAC_EMBED_DIR, loaded, faiss_index,
                   vacancy_ids, vacancies, reqVars>>

\* lifespan, step 2: seed_vacancies_if_needed; a failure is logged.  The
\* collection is modelled as the seeding leaves it.
SeedVacancies ==
    /\ app = "seed"
    /\ app' = "build"
    /\ UNCHANGED <<otherVars, settings, FAISS_AVAILABLE, VAC_EMBED_DIR, loaded, faiss_index,
                   vacancy_ids, vacancies, reqVars>>

\* lifespan, step 3: build_faiss() before the application yields
Startup(add_ok) ==
    /\ app = "build"
    /\ LET b == build_faiss(FAISS_AVAILABLE, VAC_EMBED_DIR, add_ok)
       IN /\ faiss_index' = b.faiss_index
          /\ vacancy_ids' = b.vacancy_ids
          /\ loaded' = b.loaded
    /\ app' = "serving"
    /\ UNCHANGED <<otherVars, settings, FAISS_AVAILABLE, VAC_EMBED_DIR, vacancies, reqVars>>

\* a match request accepted while the lifespan has not yielded yet
StartRequest_anytime(kf, k1, k2) ==
    /\ app \notin {"config_error", "mongo_error"}
    /\ pc = "idle"
    /\ pc' = "preprocess"
    /\ request' = [k_faiss |-> kf, k_stage1 |-> k1, k_stage2 |-> k2]
    /\ UNCHANGED <<otherVars, indexVars, vacancies, q_vec, search_res, top_idx_list, ordered,
                   selected, returned, stage1_selected, stage2, stage2_selected,
                   final, result, calls, outcome>>

\* POST /vacancies reaches MatchService.match_vacancies; the server routes
\* requests only once the lifespan has yielded
StartRequest(kf, k1, k2) ==
    /\ app = "serving"
    /\ pc = "idle"
    /\ pc' = "preprocess"
    /\ request' = [k_faiss |-> kf, k_stage1 |-> k1, k_stage2 |-> k2]
    /\ UNCHANGED <<otherVars, indexVars, vacancies, q_vec, search_res, top_idx_list, ordered,
                   selected, returned, stage1_selected, stage2, stage2_selected,
                   final, result, calls, outcome>>

Fail(at, msg) ==
    /\ pc' = "done"
    /\ outcome' = Error(at, msg)

\* preprocess_resume: one run_text_completion call; its RuntimeError is re-raised
Preprocess(ok) ==
    /\ pc = "preprocess"
    /\ ok => SdkAvailable(settings)
    /\ calls' = Append(calls, Call("preprocess_resume", "run_text_completion", ok))
    /\ IF ok THEN pc' = "embed" /\ UNCHANGED outcome
             ELSE Fail("preprocess_resume", "YandexGPT API error")
    /\ UNCHANGED <<otherVars, indexVars, vacancies, request, q_vec, search_res, top_idx_list,
                   ordered, selected, returned, stage1_selected, stage2, stage2_selected,
                   final, result>>

\* embed_query: one embed_text call; its RuntimeError is re-raised
Embed(ok, vec) ==
    /\ pc = "embed"
    /\ ok => SdkAvailable(settings)
    /\ calls' = Append(calls, Call("embed_query", "embed_text", ok))
    /\ IF ok THEN pc' = "search" /\ q_vec' = vec /\ UNCHANGED outcome
             ELSE Fail("embed_query", "YandexGPT Embeddings API error")
                  /\ UNCHANGED q_vec
    /\ UNCHANGED <<otherVars, indexVars, vacancies, request, search_res, top_idx_list,
                   ordered, selected, returned, stage1_selected, stage2, stage2_selected,
                   final, result>>

\* match_vacancies lines 315-347: search_top_k inside the try block
Search(indices) ==
    /\ pc = "search"
    /\ LET res == search_top_k(FAISS_AVAILABLE, faiss_index, vacancy_ids, q_vec,
                               request.k_faiss, indices)
       IN \* the graph answers with as many positions as it was asked for
          /\ Len(indices) = res.asked
          /\ search_res' = res
          /\ top_idx_list' = res.ids
          /\ IF res.raised = "RuntimeError" \/ (res.raised = "no" /\ res.ids = <<>>)
             THEN Fail("search_top_k", "FAISS search failed")
             ELSE IF res.raised # "no"
             THEN Fail("search_top_k", "Unexpected FAISS error")
             ELSE pc' = "fetch" /\ UNCHANGED outcome
    /\ UNCHANGED <<otherVars, indexVars, vacancies, request, q_vec, ordered, selected, returned,
                   stage1_selected, stage2, stage2_selected, final, result, calls>>

\* match_vacancies lines 349-368: the fetch and the empty-fetch branch
Fetch ==
    /\ pc = "fetch"
    /\ LET docs == fetch_vacancies_in_order(vacancies, top_idx_list)
       IN /\ ordered' = docs
          /\ IF docs = <<>>
             THEN /\ calls' = calls \o <<Call("fetch_vacancies_in_order", "find_by_ids", TRUE),
                                         Call("match_vacancies", "find_all", TRUE)>>
                  /\ pc' = "done"
                  /\ outcome' = MatchVacanciesResponse(top_idx_list, {}, <<>>)
             ELSE /\ calls' = Append(calls, Call("fetch_vacancies_in_order", "find_by_ids", TRUE))
                  /\ pc' = "stage1"
                  /\ UNCHANGED outcome
    \* the frame of search_top_k (its indices, its result list) is gone;
    \* match_vacancies keeps top_idx_list
    /\ search_res' = NoSearch
    /\ UNCHANGED <<otherVars, indexVars, vacancies, request, q_vec, top_idx_list,
                   selected, returned, stage1_selected, stage2, stage2_selected, final,
                   result>>

\* stage 1 wrapped in a retry: a narrowing call that raised is issued once more
Stage1_retry(reply) ==
    /\ pc = "stage1"
    /\ reply.kind # "raise" => SdkAvailable(settings)
    /\ calls' = Append(calls, [Call("stage1_select", "run_structured_completion",
                                    reply.kind # "raise")
                                 EXCEPT !.input = IdxOf(ordered)])
    /\ LET r == stage1_select(reply, request.k_stage1)
       IN IF r.raised
          THEN /\ IF calls[Len(calls)].by = "stage1_select"
                  THEN Fail("stage1_select", "YandexGPT API error")
                  ELSE UNCHANGED <<pc, outcome>>
               /\ UNCHANGED <<selected, returned, stage1_selected, stage2>>
          ELSE /\ selected' = r.selected
               /\ returned' = r.returned
               /\ stage1_selected' = Range(r.returned)
               /\ stage2' = Survivors(ordered, Range(r.returned), request.k_stage1)
               /\ pc' = "stage2"
               /\ UNCHANGED outcome
    /\ UNCHANGED <<otherVars, indexVars, vacancies, request, q_vec, search_res, top_idx_list,
                   ordered, stage2_selected, final, result>>

\* match_vacancies lines 370-387
Stage1(reply) ==
    /\ pc = "stage1"
    /\ reply.kind # "raise" => SdkAvailable(settings)
    /\ calls' = Append(calls, [Call("stage1_select", "run_structured_completion",
                                    reply.kind # "raise")
                                 EXCEPT !.input = IdxOf(ordered)])
    /\ LET r == stage1_select(reply, request.k_stage1)
       IN IF r.raised
          THEN /\ Fail("stage1_select", "YandexGPT API error")
               /\ UNCHANGED <<selected, returned, stage1_selected, stage2>>
          ELSE /\ selected' = r.selected
               /\ returned' = r.returned
               /\ stage1_selected' = Range(r.returned)
               /\ stage2' = Survivors(ordered, Range(r.returned), request.k_stage1)
               /\ pc' = "stage2"
               /\ UNCHANGED outcome
    /\ UNCHANGED <<otherVars, indexVars, vacancies, request, q_vec, search_res, top_idx_list,
                   ordered, stage2_selected, final, result>>

\* match_vacancies lines 389-405
Stage2(reply) ==
    /\ pc = "stage2"
    /\ reply.kind # "raise" => SdkAvailable(settings)
    /\ calls' = Append(calls, [Call("stage2_select", "run_structured_completion",
                                    reply.kind # "raise")
                                 EXCEPT !.input = IdxOf(stage2)])
    /\ LET r == stage2_select(reply, request.k_stage2)
       IN IF r.raised
          THEN /\ Fail("stage2_select", "YandexGPT API error")
               /\ UNCHANGED <<selected, returned, stage2_selected, final>>
          ELSE /\ selected' = r.selected
               /\ returned' = r.returned
               /\ stage2_selected' = Range(r.returned)
               /\ final' = Survivors(stage2, Range(r.returned), request.k_stage2)
               /\ pc' = "classify"
               /\ UNCHANGED outcome
    /\ UNCHANGED <<otherVars, indexVars, vacancies, request, q_vec, search_res, top_idx_list,
                   ordered, stage1_selected, stage2, result>>

\* calls issued by the classifier loop for finalists n.. of docs
RECURSIVE ClassifierCalls(_, _, _)
ClassifierCalls(docs, replies, n) ==
    IF n > Len(docs) THEN <<>>
    ELSE LET c == determine_seniority_level(docs[n], replies[n])
         IN (IF c.called
             THEN <<[Call("determine_seniority_level", "run_text_completion",
                          ~replies[n].raised)
                       EXCEPT !.mentions = replies[n].mentions]>>
             ELSE <<>>) \o ClassifierCalls(docs, replies, n + 1)

\* match_vacancies lines 407-431: the classifier loop and the response;
\* replies[n] is the model's answer should finalist n need a model call.
\* The loop has no try block: a classifier that raised would end the request.
Respond(replies) ==
    /\ pc = "classify"
    /\ \A n \in 1..Len(final) : ~replies[n].raised => SdkAvailable(settings)
    /\ LET out    == [n \in 1..Len(final) |->
                        determine_seniority_level(final[n], replies[n])]
           raises == {n \in 1..Len(final) : out[n].raised}
           last   == IF raises = {} THEN Len(final)
                     ELSE CHOOSE n \in raises : \A m \in raises : n <= m
           done   == IF raises = {} THEN Len(final) ELSE last - 1
       IN /\ result' = [n \in 1..done |->
                          [idx |-> final[n].idx, seniority_level |-> out[n].level]]
          /\ calls' = calls \o ClassifierCalls(SubSeq(final, 1, last), replies, 1)
          /\ pc' = "done"
          /\ IF raises = {}
             THEN outcome' = MatchVacanciesResponse(Prefix(top_idx_list, request.k_faiss),
                                                    stage1_selected, result')
             ELSE outcome' = Error("determine_seniority_level", "Failed to match vacancies")
    /\ selected' = <<>>
    /\ returned' = <<>>
    /\ UNCHANGED <<otherVars, indexVars, vacancies, request, q_vec, search_res, top_idx_list,
                   ordered, stage1_selected, stage2, stage2_selected, final>>

\* the route handler has delivered the response or the error: the frame of
\* match_vacancies is gone
Return ==
    /\ pc = "done"
    /\ pc' = "idle"
    /\ request' = NoRequest
    /\ q_vec' = <<>>
    /\ search_res' = NoSearch
    /\ top_idx_list' = <<>>
    /\ ordered' = <<>>
    /\ selected' = <<>>
    /\ returned' = <<>>
    /\ stage1_selected' = {}
    /\ stage2' = <<>>
    /\ stage2_selected' = {}
    /\ final' = <<>>
    /\ result' = <<>>
    /\ calls' = <<>>
    /\ outcome' = NoOutcome
    /\ UNCHANGED <<otherVars, indexVars, vacancies>>

Next ==
    \/ ValidateSettings
    \/ \E ok \in BOOLEAN : InitMongo(ok)
    \/ SeedVacancies
    \/ \E add_ok \in BOOLEAN : Startup(add_ok)
    \/ \E kf \in 1..MaxKFaiss, k1 \in 1..MaxKStage, k2 \in 1..MaxKStage :
          StartRequest(kf, k1, k2)
    \/ \E ok \in BOOLEAN : Preprocess(ok)
    \/ \E ok \in BOOLEAN, vec \in QueryVectors : Embed(ok, vec)
    \/ /\ pc = "search"
       /\ \E n \in 0..MaxKFaiss :
             \E indices \in GraphAnswers(n, faiss_index.ntotal) : Search(indices)
    \/ Fetch
    \/ /\ pc = "stage1"
       /\ \E reply \in Replies : Stage1(reply)
    \/ /\ pc = "stage2"
       /\ \E reply \in Replies : Stage2(reply)
    \/ /\ pc = "classify"
       /\ \E replies \in [1..Len(final) -> TextReplies] : Respond(replies)
    \/ Return

Spec == Init /\ [][Next]_vars

\* ------------------------------------------ the fetch on its own inputs
\* longest id list and largest collection handed to the fetch
MaxFetch == 3

FetchDocs == {Doc(i, kw) : i \in 1..3, kw \in {{}, {"middle"}}}

\* a request about to fetch: the index holds exactly the ids the search
\* returned, and the collection is arbitrary
InitFetch ==
    /\ OthersQuiet
    /\ settings = Settings("production", TRUE, TRUE, FALSE, TRUE)
    /\ app = "serving"
    /\ FAISS_AVAILABLE = TRUE
    /\ top_idx_list \in SeqsUpTo(1..3, MaxFetch) \ {<<>>}
    /\ vacancy_ids = top_idx_list
    /\ VAC_EMBED_DIR = Directory(<<GoodBatch(<<1>>,
                                             [i \in 1..Len(top_idx_list) |-> Vec(1, i)],
                                             top_idx_list)>>)
    /\ loaded = _load_all_embeddings(VAC_EMBED_DIR)
    /\ faiss_index = [built |-> TRUE, ntotal |-> Len(top_idx_list), d |-> 2]
    /\ vacancies \in SeqsUpTo(FetchDocs, MaxFetch)
    /\ pc = "fetch"
    /\ request = [k_faiss |-> Len(top_idx_list), k_stage1 |-> 1, k_stage2 |-> 1]
    /\ q_vec = Vec(-1, 1)
    /\ search_res = [raised |-> "no", ids |-> top_idx_list,
                     asked |-> Len(top_idx_list),
                     indices |-> [i \in 1..Len(top_idx_list) |-> i - 1]]
    /\ ordered = <<>>
    /\ selected = <<>>
    /\ returned = <<>>
    /\ stage1_selected = {}
    /\ stage2 = <<>>
    /\ stage2_selected = {}
    /\ final = <<>>
    /\ result = <<>>
    /\ calls = <<Call("preprocess_resume", "run_text_completion", TRUE),
                 Call("embed_query", "embed_text", TRUE)>>
    /\ outcome = NoOutcome

NextFetch == Fetch

SpecFetch == InitFetch /\ [][NextFetch]_vars

\* ------------------------------------------ the build on its own inputs
\* most batch files in the embeddings directory
MaxBatches == 3

\* <num> of the batch files: 2, 9, 10 and a name that carries no number
FileNames == {<<2>>, <<9>>, <<1, 0>>, <<NonDigit>>}

\* row j of the vector file named num, and the id stored next to it
RowOf(num, j) == Vec(IF IsNumber(num) THEN ParseInt(num) ELSE 0, j)
IdOf(num, j)  == 10 * (IF IsNumber(num) THEN ParseInt(num) ELSE 0) + j

\* what the vector file named num and its id file may hold
Kinds == {"equal", "more_vectors", "more_ids", "no_ids", "vector_1d", "scalar_id",
          "vectors_unreadable", "ids_unreadable", "other_dimension"}

BatchFile(num, kind) ==
    CASE kind = "equal" ->
           GoodBatch(num, <<RowOf(num, 1), RowOf(num, 2)>>, <<IdOf(num, 1), IdOf(num, 2)>>)
      [] kind = "more_vectors" ->
           GoodBatch(num, <<RowOf(num, 1), RowOf(num, 2)>>, <<IdOf(num, 1)>>)
      [] kind = "more_ids" ->
           GoodBatch(num, <<RowOf(num, 1)>>, <<IdOf(num, 1), IdOf(num, 2)>>)
      [] kind = "no_ids" ->
           GoodBatch(num, <<RowOf(num, 1), RowOf(num, 2)>>, <<>>)
      \* a 1-D vector array without id file
      [] kind = "vector_1d" ->
           Batch(num, TRUE, TRUE, <<RowOf(num, 1)>>, "absent", <<>>)
      \* a 0-d id array
      [] kind = "scalar_id" ->
           Batch(num, TRUE, FALSE, <<RowOf(num, 1), RowOf(num, 2)>>, "scalar", <<IdOf(num, 1)>>)
      \* np.load fails on the vector file, on the id file
      [] kind = "vectors_unreadable" ->
           Batch(num, FALSE, FALSE, <<>>, "absent", <<>>)
      [] kind = "ids_unreadable" ->
           Batch(num, TRUE, FALSE, <<RowOf(num, 1)>>, "unreadable", <<>>)
      \* vectors of another dimension
      [] kind = "other_dimension" ->
           GoodBatch(num, <<<<RowOf(num, 1)[1]>>>>, <<IdOf(num, 1)>>)

\* the names of m batch files, in any glob order
FileLists(m) == {f \in [1..m -> FileNames] : \A i, j \in 1..m : i # j => f[i] # f[j]}

\* the lifespan about to call build_faiss
InitLoad ==
    /\ OthersQuiet
    /\ settings = Settings("production", TRUE, TRUE, FALSE, TRUE)
    /\ app = "build"
    /\ FAISS_AVAILABLE \in BOOLEAN
    /\ \/ VAC_EMBED_DIR = NoDirectory
       \/ \E m \in 0..MaxBatches :
             \E names \in FileLists(m), kinds \in [1..m -> Kinds] :
                VAC_EMBED_DIR = Directory([i \in 1..m |-> BatchFile(names[i], kinds[i])])
    /\ loaded = NotLoaded
    /\ faiss_index = None
    /\ vacancy_ids = <<>>
    /\ vacancies = <<>>
    /\ pc = "idle"
    /\ request = NoRequest
    /\ FreshRequest

NextLoad == \E add_ok \in BOOLEAN : Startup(add_ok)

SpecLoad == InitLoad /\ [][NextLoad]_vars

\* ================================================ sessions, chat, profiles
\* (app/routers/chat.py, sessions.py, profile.py; app/services/chat_service.py,
\* profile_service.py; app/repos/chat_repos.py, profile_repos.py)

\* SessionsRepository.find_by_id
find_by_id(coll, session_id) ==
    IF \E d \in coll : d.session_id = session_id
    THEN CHOOSE d \in coll : d.session_id = session_id
    ELSE NoDoc

\* SessionsRepository.delete_by_id
delete_by_id(coll, session_id) ==
    IF \E d \in coll : d.session_id = session_id
    THEN coll \ {CHOOSE d \in coll : d.session_id = session_id}
    ELSE coll

\* MessagesRepository.insert_one of a message with this role, created_at and done
insert_one(h, role, created_at, done) ==
    IF role = "assistant" /\ (~h.assistant \/ created_at >= h.last_at)
    THEN History(h.count + 1, TRUE, created_at, done)
    ELSE [h EXCEPT !.count = @ + 1]

\* MessagesRepository.delete_by_session_id
delete_by_session_id(coll, session_id) == [coll EXCEPT ![session_id] = NoMessages]

\* a document of the "profiles" collection; its profile is named after the
\* session whose history it was built from
Profile(user_id, session_id, profile) ==
    [user_id |-> user_id, session_id |-> session_id, profile |-> profile]

NoProfile == Profile("", "", "")

\* ProfilesRepository.find_by_session_id
find_by_session_id(coll, session_id) ==
    IF \E d \in coll : d.session_id = session_id
    THEN CHOOSE d \in coll : d.session_id = session_id
    ELSE NoProfile

\* ProfilesRepository.upsert_one: update_one({"user_id": ...}, {"$set": profile},
\* upsert=True)
upsert_one(coll, profile) ==
    IF \E d \in coll : d.user_id = profile.user_id
    THEN (coll \ {CHOOSE d \in coll : d.user_id = profile.user_id}) \cup {profile}
    ELSE coll \cup {profile}

\* what run_structured_completion gives generate_reply: it raises, returns "",
\* or returns a text parse_model_output reads as (reply, done)
ChatReplies == {"raise", "empty", "done", "more"}
\* ... and build_profile: it raises, or returns text json.loads rejects or accepts
ProfileReplies == {"raise", "notjson", "json"}

\* histories a session may have when the modelled requests arrive
Histories ==
    { NoMessages,
      History(MinMessages, TRUE, 0, TRUE),
      History(MinMessages, TRUE, 0, FALSE),
      History(EnoughMessages, TRUE, 0, FALSE),
      History(EnoughMessages, FALSE, 0, FALSE) }

Begin(op, sid, text, i) == [NoReq EXCEPT !.op = op, !.sid = sid, !.text = text, !.at = i]

\* the handler returns or raises HTTPException
Answer(r, status, detail) == [r EXCEPT !.pc = "done", !.status = status, !.detail = detail]

\* requests arrive one after another: request i is the i-th to arrive, and
\* datetime.utcnow() of a later request is later
CanBegin(i) == reqs[i].pc = "idle" /\ \A j \in 1..(i - 1) : reqs[j].pc # "idle"

\* chat without the validation of the text
chat_novalidation(i, session_id, text) ==
    /\ CanBegin(i)
    /\ LET r == Begin("chat", session_id, text, i)
           session == find_by_id(sessions, session_id)
       IN reqs' = [reqs EXCEPT ![i] =
             IF session = NoDoc THEN Answer(r, 404, "Session not found")
             ELSE [r EXCEPT !.pc = "user_msg", !.session = session]]
    /\ UNCHANGED <<sessions, messages, profiles>>

\* routers/chat.py chat, up to the first await of generate_reply
\* (sessions_repo.find_by_id)
chat(i, session_id, text) ==
    /\ CanBegin(i)
    /\ LET r == Begin("chat", session_id, text, i)
           session == find_by_id(sessions, session_id)
       IN reqs' = [reqs EXCEPT ![i] =
             IF session_id = " " THEN Answer(r, 400, "Session ID is required")
             ELSE IF text.len = 0 \/ text.blank
             THEN Answer(r, 400, "Message text cannot be empty")
             ELSE IF text.len > MaxTextLength
             THEN Answer(r, 400, "Message text is too long")
             ELSE IF session = NoDoc THEN Answer(r, 404, "Session not found")
             ELSE [r EXCEPT !.pc = "user_msg", !.session = session]]
    /\ UNCHANGED <<sessions, messages, profiles>>

\* generate_reply lines 232-242: the user's message is stored
ChatStoreUser(i) ==
    /\ reqs[i].pc = "user_msg"
    /\ messages' = [messages EXCEPT ![reqs[i].sid] =
                       insert_one(@, "user", reqs[i].at, FALSE)]
    /\ reqs' = [reqs EXCEPT ![i].pc = "reply"]
    /\ UNCHANGED <<sessions, profiles>>

\* generate_reply lines 244-340: the profile and history reads, the model
\* call, and the assistant's message; a failed or empty answer is a
\* ValueError the route answers with 400
ChatReply(i, reply) ==
    /\ reqs[i].pc = "reply"
    /\ LET r == [reqs[i] EXCEPT !.called = TRUE]
       IN IF reply \in {"raise", "empty"}
          THEN /\ reqs' = [reqs EXCEPT ![i] = Answer(r, 400, "Failed to generate reply")]
               /\ UNCHANGED messages
          ELSE /\ messages' = [messages EXCEPT ![r.sid] =
                                  insert_one(@, "assistant", r.at, reply = "done")]
               /\ reqs' = [reqs EXCEPT ![i] = Answer(r, 200, "reply")]
    /\ UNCHANGED <<sessions, profiles>>

\* routers/sessions.py get_session
get_session(i, session_id) ==
    /\ CanBegin(i)
    /\ LET r == Begin("get_session", session_id, NoText, i)
       IN reqs' = [reqs EXCEPT ![i] =
             IF find_by_id(sessions, session_id) = NoDoc
             THEN Answer(r, 404, "Session not found")
             ELSE Answer(r, 200, "session")]
    /\ UNCHANGED <<sessions, messages, profiles>>

\* routers/sessions.py delete_session, up to its first await
delete_session(i, session_id) ==
    /\ CanBegin(i)
    /\ LET r == Begin("delete_session", session_id, NoText, i)
       IN reqs' = [reqs EXCEPT ![i] =
             IF find_by_id(sessions, session_id) = NoDoc
             THEN Answer(r, 404, "Session not found")
             ELSE [r EXCEPT !.pc = "del_msgs"]]
    /\ UNCHANGED <<sessions, messages, profiles>>

\* delete_session: messages_repo.delete_by_session_id
DeleteMessages(i) ==
    /\ reqs[i].pc = "del_msgs"
    /\ messages' = delete_by_session_id(messages, reqs[i].sid)
    /\ reqs' = [reqs EXCEPT ![i].pc = "del_session"]
    /\ UNCHANGED <<sessions, profiles>>

\* delete_session: sessions_repo.delete_by_id, then the success answer
DeleteSession(i) ==
    /\ reqs[i].pc = "del_session"
    /\ sessions' = delete_by_id(sessions, reqs[i].sid)
    /\ reqs' = [reqs EXCEPT ![i] = Answer(@, 200, "success")]
    /\ UNCHANGED <<messages, profiles>>

\* routers/profile.py get_profile lines 97-110: the session and the stored
\* profile are looked up
get_profile(i, session_id) ==
    /\ CanBegin(i)
    /\ LET r == Begin("get_profile", session_id, NoText, i)
           session == find_by_id(sessions, session_id)
       IN reqs' = [reqs EXCEPT ![i] =
             IF session = NoDoc THEN Answer(r, 404, "Session not found")
             ELSE IF find_by_session_id(profiles, session_id) # NoProfile
             THEN Answer(r, 200, "existing")
             ELSE [r EXCEPT !.pc = "count", !.session = session]]
    /\ UNCHANGED <<sessions, messages, profiles>>

\* build_profile lines 233-247: the session is looked up again and the
\* messages are listed
ProfileCount(i) ==
    /\ reqs[i].pc = "count"
    /\ LET r == reqs[i]
           all_msgs == messages[r.sid].count
       IN reqs' = [reqs EXCEPT ![i] =
             IF find_by_id(sessions, r.sid) = NoDoc
             THEN Answer(r, 404, "Session not found")
             ELSE IF all_msgs < MinMessages
             THEN Answer(r, 400, "Interview not finished")
             ELSE [r EXCEPT !.pc = "last", !.all_msgs = all_msgs]]
    /\ UNCHANGED <<sessions, messages, profiles>>

\* build_profile accepting any history
build_profile_unchecked(all_msgs, last_msg, reply) ==
    IF reply = "raise" THEN "RuntimeError"
    ELSE IF reply = "notjson" THEN "ValueError: Failed to parse"
    ELSE "profile"

\* build_profile lines 249-296, given the number of messages it listed and the
\* last assistant message it found: what it raises, or that it returns a profile
build_profile(all_msgs, last_msg, reply) ==
    IF ~last_msg.assistant THEN "ValueError: Interview not finished"
    ELSE IF ~last_msg.done /\ all_msgs < EnoughMessages
    THEN "ValueError: Interview not finished"
    ELSE IF reply = "raise" THEN "RuntimeError"
    ELSE IF reply = "notjson" THEN "ValueError: Failed to parse"
    ELSE "profile"

\* get_profile line 113 and its except branches: build_profile from the last
\* assistant message on
ProfileLast(i, reply) ==
    /\ reqs[i].pc = "last"
    /\ LET b == build_profile(reqs[i].all_msgs, messages[reqs[i].sid], reply)
           r == [reqs[i] EXCEPT !.called = (b # "ValueError: Interview not finished"),
                                !.last_done = messages[reqs[i].sid].done]
       IN reqs' = [reqs EXCEPT ![i] =
             IF b = "profile" THEN [r EXCEPT !.pc = "store", !.data = r.sid]
             ELSE IF b = "RuntimeError" THEN Answer(r, 500, "Failed to build profile")
             ELSE IF b = "ValueError: Interview not finished"
             THEN Answer(r, 400, "Interview not finished")
             ELSE Answer(r, 400, "Failed to parse structured profile JSON")]
    /\ UNCHANGED <<sessions, messages, profiles>>

\* get_profile lines 115-132: the profile is stored and returned
ProfileStore(i) ==
    /\ reqs[i].pc = "store"
    /\ profiles' = upsert_one(profiles,
                      Profile(reqs[i].session.user_id, reqs[i].sid, reqs[i].data))
    /\ reqs' = [reqs EXCEPT ![i] = Answer(@, 200, "built")]
    /\ UNCHANGED <<sessions, messages>>

\* two sessions, of one user or of two, the first with some history, the
\* second with a finished interview, no profile yet
InitChat ==
    /\ MatchQuiet
    /\ RateQuiet
    /\ CareerQuiet
    /\ \E u \in Users : sessions = {Session("s1", "u1"), Session("s2", u)}
    /\ \E h1 \in Histories :
          messages = [s \in SessionIds |->
                         IF s = "s1" THEN h1
                         ELSE IF s = "s2" THEN History(MinMessages, TRUE, 0, TRUE)
                         ELSE NoMessages]
    /\ profiles = {}
    /\ reqs = [i \in 1..MaxRequests |-> NoReq]

NextChat ==
    \/ \E i \in 1..MaxRequests :
          /\ CanBegin(i)
          /\ \E input \in ChatInputs :
                /\ chat(i, input[1], input[2])
                /\ UNCHANGED <<matchVars, rateVars, career>>
    \/ \E i \in 1..MaxRequests :
          ChatStoreUser(i) /\ UNCHANGED <<matchVars, rateVars, career>>
    \/ \E i \in 1..MaxRequests, reply \in ChatReplies :
          ChatReply(i, reply) /\ UNCHANGED <<matchVars, rateVars, career>>
    \/ \E i \in 1..MaxRequests, session_id \in SessionIds \ {" "} :
          get_session(i, session_id) /\ UNCHANGED <<matchVars, rateVars, career>>
    \/ \E i \in 1..MaxRequests, session_id \in SessionIds \ {" "} :
          delete_session(i, session_id) /\ UNCHANGED <<matchVars, rateVars, career>>
    \/ \E i \in 1..MaxRequests :
          DeleteMessages(i) /\ UNCHANGED <<matchVars, rateVars, career>>
    \/ \E i \in 1..MaxRequests :
          DeleteSession(i) /\ UNCHANGED <<matchVars, rateVars, career>>
    \/ \E i \in 1..MaxRequests, session_id \in SessionIds \ {" "} :
          get_profile(i, session_id) /\ UNCHANGED <<matchVars, rateVars, career>>
    \/ \E i \in 1..MaxRequests :
          ProfileCount(i) /\ UNCHANGED <<matchVars, rateVars, career>>
    \/ \E i \in 1..MaxRequests, reply \in ProfileReplies :
          ProfileLast(i, reply) /\ UNCHANGED <<matchVars, rateVars, career>>
    \/ \E i \in 1..MaxRequests :
          ProfileStore(i) /\ UNCHANGED <<matchVars, rateVars, career>>

SpecChat == InitChat /\ [][NextChat]_vars

\* ========================================================== rate limiting
\* (app/middleware/rate_limit.py)

\* RATE_LIMIT_REQUESTS and RATE_LIMIT_WINDOW of the modelled deployment
\* (config.py lines 66-67 default them to 100 and 60)
requests_per_window == 2
window_seconds == 1
\* RateLimitMiddleware.__init__, line 30
_cleanup_interval == 300
\* the readings of time.time() at which requests arrive: up to MaxOffset
\* seconds after the start, and one cleanup interval after it
MaxOffset == 1
Instants == (0..MaxOffset) \cup {_cleanup_interval}

\* [t for t in request_times if t > cutoff_time]
Recent(times, cutoff_time) == SelectSeq(times, LAMBDA t : t > cutoff_time)

\* RateLimitMiddleware._cleanup_old_entries at current_time; a key the
\* defaultdict does not hold reads as the empty list
_cleanup_old_entries(times, last_cleanup, current_time) ==
    IF current_time - last_cleanup < _cleanup_interval
    THEN [request_times |-> times, _last_cleanup |-> last_cleanup]
    ELSE [request_times |-> [ip \in Clients |->
                               Recent(times[ip], current_time - window_seconds)],
          _last_cleanup |-> current_time]

\* dispatch refusing only above the limit
dispatch_offbyone(client_ip, path) ==
    IF path \in ExemptPaths
    THEN /\ answer' = [client |-> client_ip, path |-> path, status |-> 200]
         /\ UNCHANGED <<now, request_times, _last_cleanup, forwarded>>
    ELSE LET c == _cleanup_old_entries(request_times, _last_cleanup, now)
             kept == Recent(c.request_times[client_ip], now - window_seconds)
         IN /\ _last_cleanup' = c._last_cleanup
            /\ IF Len(kept) > requests_per_window
               THEN /\ request_times' = [c.request_times EXCEPT ![client_ip] = kept]
                    /\ answer' = [client |-> client_ip, path |-> path,
                                  status |-> 429]
                    /\ UNCHANGED forwarded
               ELSE /\ request_times' = [c.request_times EXCEPT ![client_ip] =
                                            Append(kept, now)]
                    /\ forwarded' = [forwarded EXCEPT ![client_ip] = Append(@, now)]
                    /\ answer' = [client |-> client_ip, path |-> path,
                                  status |-> 200]
            /\ UNCHANGED now

\* RateLimitMiddleware.dispatch for a request of this client arriving now;
\* call_next is the application, whose answer is written as 200
dispatch(client_ip, path) ==
    IF path \in ExemptPaths
    THEN /\ answer' = [client |-> client_ip, path |-> path, status |-> 200]
         /\ UNCHANGED <<now, request_times, _last_cleanup, forwarded>>
    ELSE LET c == _cleanup_old_entries(request_times, _last_cleanup, now)
             kept == Recent(c.request_times[client_ip], now - window_seconds)
         IN /\ _last_cleanup' = c._last_cleanup
            /\ IF Len(kept) >= requests_per_window
               THEN /\ request_times' = [c.request_times EXCEPT ![client_ip] = kept]
                    /\ answer' = [client |-> client_ip, path |-> path,
                                  status |-> 429]
                    /\ UNCHANGED forwarded
               ELSE /\ request_times' = [c.request_times EXCEPT ![client_ip] =
                                            Append(kept, now)]
                    /\ forwarded' = [forwarded EXCEPT ![client_ip] = Append(@, now)]
                    /\ answer' = [client |-> client_ip, path |-> path,
                                  status |-> 200]
            /\ UNCHANGED now

\* time.time() advances between two requests
Tick(seconds) ==
    /\ now + seconds \in Instants
    /\ now' = now + seconds
    /\ UNCHANGED <<request_times, _last_cleanup, forwarded, answer>>

InitRate ==
    /\ MatchQuiet
    /\ ChatQuiet
    /\ CareerQuiet
    /\ RateQuiet

NextRate ==
    \/ \E client_ip \in Clients, path \in Paths :
          dispatch(client_ip, path) /\ UNCHANGED <<matchVars, chatVars, career>>
    \/ \E seconds \in {t - now : t \in {i \in Instants : i > now}} :
          Tick(seconds) /\ UNCHANGED <<matchVars, chatVars, career>>

SpecRate == InitRate /\ [][NextRate]_vars

\* ===================================================== career development
\* (app/routers/match.py get_career_development,
\* app/services/career_development_service.py)

\* the route's automatic profile building (routers/match.py lines 286-325):
\* what build_profile raises for the session, or that its profile is stored
AutoProfile(session_id, reply) ==
    IF find_by_id(sessions, session_id) = NoDoc THEN "ValueError: Session not found"
    ELSE IF messages[session_id].count < MinMessages
    THEN "ValueError: Interview not finished"
    ELSE build_profile(messages[session_id].count, messages[session_id], reply)

\* POST /career-development up to the call of match_vacancies: the profile is
\* looked up, built and stored if absent, then get_career_development analyses
\* the gap, finds courses and writes the future resume (model calls whose
\* failures are replaced by fixed texts) and calls match_vacancies with
\* k_faiss=100, k_stage1=30, k_stage2=15
StartCareer(session_id, reply) ==
    /\ app = "serving"
    /\ pc = "idle"
    /\ career.pc \in {"idle", "done"}
    /\ LET existing == find_by_session_id(profiles, session_id)
           b == IF existing # NoProfile THEN "profile" ELSE AutoProfile(session_id, reply)
           r == [NoCareer EXCEPT !.sid = session_id]
       IN /\ profiles' = IF existing = NoProfile /\ b = "profile"
                         THEN upsert_one(profiles,
                                 Profile(find_by_id(sessions, session_id).user_id,
                                         session_id, session_id))
                         ELSE profiles
          /\ IF b = "profile"
             THEN /\ career' = [r EXCEPT !.pc = "matching"]
                  /\ pc' = "preprocess"
                  /\ request' = [k_faiss |-> 100, k_stage1 |-> 30, k_stage2 |-> 15]
             ELSE /\ career' = [r EXCEPT !.pc = "done",
                      !.status = IF b = "RuntimeError" THEN 500
                                 ELSE IF b = "ValueError: Interview not finished" THEN 400
                                 ELSE 404,
                      !.detail = b]
                  /\ UNCHANGED <<pc, request>>
    /\ UNCHANGED <<indexVars, vacancies, q_vec, search_res, top_idx_list, ordered,
                   selected, returned, stage1_selected, stage2, stage2_selected,
                   final, result, calls, outcome, sessions, messages, reqs, rateVars>>

\* CareerDevelopmentService.find_future_vacancies lines 349-354, given how
\* match_vacancies ended
find_future_vacancies(response) ==
    IF response.kind = "error"
    THEN [raised |-> FALSE, future_vacancies |-> <<>>]
    ELSE [raised |-> FALSE, future_vacancies |-> response.result]

\* match_vacancies has returned or raised inside find_future_vacancies;
\* get_career_development builds its response
CareerReturn ==
    /\ pc = "done"
    /\ career.pc = "matching"
    /\ LET f == find_future_vacancies(outcome)
       IN career' = IF f.raised
                    THEN [career EXCEPT !.pc = "done", !.status = 500,
                                        !.detail = "Failed to get career development"]
                    ELSE [career EXCEPT !.pc = "done", !.status = 200,
                                        !.future_vacancies = f.future_vacancies]
    /\ pc' = "idle"
    /\ request' = NoRequest
    /\ q_vec' = <<>>
    /\ search_res' = NoSearch
    /\ top_idx_list' = <<>>
    /\ ordered' = <<>>
    /\ selected' = <<>>
    /\ returned' = <<>>
    /\ stage1_selected' = {}
    /\ stage2' = <<>>
    /\ stage2_selected' = {}
    /\ final' = <<>>
    /\ result' = <<>>
    /\ calls' = <<>>
    /\ outcome' = NoOutcome
    /\ UNCHANGED <<indexVars, vacancies, chatVars, rateVars>>

\* a serving application, its index built or not, and one user with two
\* sessions, the first with some history, the second with a stored profile
InitCareer ==
    /\ settings = Settings("production", TRUE, FALSE, TRUE, TRUE)
    /\ app = "serving"
    /\ FAISS_AVAILABLE \in BOOLEAN
    /\ VAC_EMBED_DIR \in Directories
    /\ \E add_ok \in BOOLEAN :
          LET b == build_faiss(FAISS_AVAILABLE, VAC_EMBED_DIR, add_ok)
          IN faiss_index = b.faiss_index /\ vacancy_ids = b.vacancy_ids /\ loaded = b.loaded
    /\ vacancies \in VacancyStores
    /\ pc = "idle"
    /\ request = NoRequest
    /\ FreshRequest
    /\ sessions = {Session("s1", "u1"), Session("s2", "u1")}
    /\ \E h1 \in Histories :
          messages = [s \in SessionIds |-> IF s = "s1" THEN h1 ELSE NoMessages]
    /\ profiles = {Profile("u1", "s2", "s2")}
    /\ reqs = [i \in 1..MaxRequests |-> NoReq]
    /\ RateQuiet
    /\ CareerQuiet

NextCareer ==
    \/ /\ pc = "idle"
       /\ \E session_id \in SessionIds, reply \in ProfileReplies :
             StartCareer(session_id, reply)
    \/ \E ok \in BOOLEAN : Preprocess(ok)
    \/ \E ok \in BOOLEAN, vec \in QueryVectors : Embed(ok, vec)
    \/ /\ pc = "search"
       /\ \E n \in 0..MaxKFaiss :
             \E indices \in GraphAnswers(n, faiss_index.ntotal) : Search(indices)
    \/ Fetch
    \/ /\ pc = "stage1"
       /\ \E reply \in Replies : Stage1(reply)
    \/ /\ pc = "stage2"
       /\ \E reply \in Replies : Stage2(reply)
    \/ /\ pc = "classify"
       /\ \E replies \in [1..Len(final) -> TextReplies] : Respond(replies)
    \/ CareerReturn

SpecCareer == InitCareer /\ [][NextCareer]_vars

\* ------------------------------------------------------------- properties

Fetched == \E i \in 1..Len(calls) : calls[i].fn = "find_by_ids"

InStore(i) == \E n \in 1..Len(vacancies) : vacancies[n].idx = i

IndexUnavailable ==
    ~FAISS_AVAILABLE \/ ~faiss_index.built \/ vacancy_ids = <<>>

\* s is the first n elements of t
IsPrefixOfLength(s, t, n) ==
    /\ Len(s) = n
    /\ n <= Len(t)
    /\ \A i \in 1..n : s[i] = t[i]

\* C1: the idx values of the fetched records are the entries of the id list
\* that have a record in the store, in the order of the id list; an id
\* without record is dropped and the fetch raises nothing.
C1_FetchPreservesOrder ==
    Fetched =>
        /\ IdxOf(ordered) = SelectSeq(top_idx_list, InStore)
        /\ \A n \in 1..Len(ordered) : ordered[n] \in Range(vacancies)
        /\ calls[Len(calls)].fn \in {"find_by_ids", "find_all"} =>
              outcome.kind # "error"

\* a fetch that dropped an id and put two records into an order the store
\* did not deliver them in
C1_Witness ==
    /\ Fetched
    /\ Len(ordered) >= 2
    /\ Len(ordered) < Len(top_idx_list)
    /\ \E a, b \in 1..Len(vacancies) :
          a < b /\ vacancies[a] = ordered[2] /\ vacancies[b] = ordered[1]

\* C2: the selector returns at most limit ids, the stage-1 survivors are at
\* most k_stage1 and the final result at most k_stage2, whatever the model
\* answered.
C2_OutputsBounded ==
    /\ pc = "stage2" =>
          Len(returned) <= request.k_stage1 /\ Len(stage2) <= request.k_stage1
    /\ pc = "classify" =>
          /\ Len(returned) <= request.k_stage2
          /\ Len(stage2) <= request.k_stage1
          /\ Len(final) <= request.k_stage2
    /\ outcome.kind = "response" => Len(outcome.result) <= request.k_stage2

\* the model named more ids than the limit allows
C2_Witness ==
    /\ pc = "stage2"
    /\ Len(selected) > request.k_stage1
    /\ Len(returned) = request.k_stage1

\* C3: when the selection a stage works with is empty or names no input
\* candidate, the survivors are the first min(limit, len(candidates))
\* candidates in their order.
C3_FallbackIsPrefix ==
    /\ (pc = "stage2" /\ Range(returned) \cap Range(IdxOf(ordered)) = {}) =>
          IsPrefixOfLength(stage2, ordered, Min(request.k_stage1, Len(ordered)))
    /\ (pc = "classify" /\ Range(returned) \cap Range(IdxOf(stage2)) = {}) =>
          IsPrefixOfLength(final, stage2, Min(request.k_stage2, Len(stage2)))

\* a non-empty selection naming no candidate, with more candidates than the
\* limit
C3_Witness ==
    /\ pc = "stage2"
    /\ returned # <<>>
    /\ Range(returned) \cap Range(IdxOf(ordered)) = {}
    /\ Len(ordered) > request.k_stage1
    /\ Len(stage2) = request.k_stage1

\* candidates of a stage the selection names
Named(candidates) == SelectSeq(candidates, LAMBDA d : d.idx \in Range(returned))

\* C4 as stated: a selection naming some but fewer than min(limit,
\* len(candidates)) candidates is filled up to that number.
C4_ShortSelectionIsFilled ==
    /\ (/\ pc = "stage2"
        /\ Named(ordered) # <<>>
        /\ Len(Named(ordered)) < Min(request.k_stage1, Len(ordered))) =>
          Len(stage2) = Min(request.k_stage1, Len(ordered))
    /\ (/\ pc = "classify"
        /\ Named(stage2) # <<>>
        /\ Len(Named(stage2)) < Min(request.k_stage2, Len(stage2))) =>
          Len(final) = Min(request.k_stage2, Len(stage2))

\* C4 amended: a selection naming some but fewer than min(limit,
\* len(candidates)) candidates is not filled: the survivors are exactly the
\* named candidates, in candidate order.
C4_ShortSelectionIsKept ==
    /\ (/\ pc = "stage2"
        /\ Named(ordered) # <<>>
        /\ Len(Named(ordered)) < Min(request.k_stage1, Len(ordered))) =>
          stage2 = Named(ordered)
    /\ (/\ pc = "classify"
        /\ Named(stage2) # <<>>
        /\ Len(Named(stage2)) < Min(request.k_stage2, Len(stage2))) =>
          final = Named(stage2)

\* limit 2, answer [1, 3], candidates 1, 2: the survivors are {1}
C4_Witness ==
    /\ pc = "stage2"
    /\ request.k_stage1 = 2
    /\ IdxOf(ordered) = <<1, 2>>
    /\ returned = <<1, 3>>
    /\ IdxOf(stage2) = <<1>>

\* C5: a narrowing call that raised is the last call of its request: the
\* request ends with an error, no fallback survivors are computed, and no
\* stage-2 or classifier call follows.
C5_NarrowingFailureIsFatal ==
    \A i \in 1..Len(calls) :
        (calls[i].fn = "run_structured_completion" /\ ~calls[i].ok) =>
            /\ i = Len(calls)
            /\ pc = "done"
            /\ outcome.kind = "error"
            /\ outcome.result = <<>>
            /\ final = <<>>
            /\ calls[i].by = "stage1_select" => stage2 = <<>>

\* the stage-1 call raised with candidates at hand
C5_Witness ==
    /\ pc = "done"
    /\ ordered # <<>>
    /\ calls # <<>>
    /\ calls[Len(calls)].by = "stage1_select"
    /\ calls[Len(calls)].fn = "run_structured_completion"
    /\ ~calls[Len(calls)].ok
    /\ outcome.at = "stage1_select"

\* C6 as stated: whatever text a narrowing call that succeeded returns, the
\* selector does not raise: the request does not end with an error of that
\* selector.
C6_MalformedAnswerNeverRaises ==
    \A i \in 1..Len(calls) :
        (calls[i].fn = "run_structured_completion" /\ calls[i].ok) =>
            ~(outcome.kind = "error" /\ outcome.at = calls[i].by)

\* C7: with the index not built, search_top_k raises and the match request
\* ends with an error; it never gets as far as a fetch or a response.
C7_UnbuiltIndexFails ==
    IndexUnavailable =>
        /\ pc \notin {"fetch", "stage1", "stage2", "classify"}
        /\ outcome.kind # "response"
        /\ pc = "done" => outcome.kind = "error"
        /\ (pc = "done" /\ outcome.at = "search_top_k") =>
              search_res.raised = "RuntimeError"

\* a request that reached search_top_k on an unbuilt index
C7_Witness ==
    /\ app = "serving"
    /\ IndexUnavailable
    /\ pc = "done"
    /\ outcome.at = "search_top_k"

\* C8 as stated: with the index unavailable the request fails with the index
\* error before any text-completion or embedding call.
C8_FailsBeforeAnyCall ==
    (IndexUnavailable /\ pc = "done") =>
        /\ outcome.kind = "error"
        /\ outcome.error = "FAISS search failed"
        /\ calls = <<>>

\* C8 amended: with the index unavailable the request fails without any
\* store lookup, narrowing or classifier call, but only after the
\* preprocessing call and then the embedding call; it ends with the index
\* error exactly when both returned.
C8_FailsAfterPreprocessAndEmbed ==
    (IndexUnavailable /\ pc = "done") =>
        /\ outcome.kind = "error"
        /\ \/ calls = <<Call("preprocess_resume", "run_text_completion", FALSE)>>
           \/ calls = <<Call("preprocess_resume", "run_text_completion", TRUE),
                        Call("embed_query", "embed_text", FALSE)>>
           \/ calls = <<Call("preprocess_resume", "run_text_completion", TRUE),
                        Call("embed_query", "embed_text", TRUE)>>
        /\ outcome.error = "FAISS search failed"
              <=> (Len(calls) = 2 /\ calls[2].ok)

\* the index error, reached after two successful calls
C8_Witness ==
    /\ IndexUnavailable
    /\ pc = "done"
    /\ outcome.error = "FAISS search failed"
    /\ calls = <<Call("preprocess_resume", "run_text_completion", TRUE),
                 Call("embed_query", "embed_text", TRUE)>>

\* C9 as stated: a response always carries a non-empty result.
C9_ResponseNeverEmpty ==
    outcome.kind = "response" => outcome.result # <<>>

\* C9 amended: a response carries an empty result exactly when no id the
\* index returned has a record in the store (then stage1 is empty too);
\* with at least one fetched record the result is non-empty.
C9_ResponseEmptyOnlyOnEmptyFetch ==
    outcome.kind = "response" =>
        /\ outcome.result = <<>> <=> ordered = <<>>
        /\ ordered = <<>> => outcome.stage1 = {} /\ outcome.top_idx = top_idx_list

\* both selections empty, the response still carries records
C9_Witness ==
    /\ outcome.kind = "response"
    /\ ordered # <<>>
    /\ stage1_selected = {}
    /\ stage2_selected = {}
    /\ outcome.result # <<>>

AllZero(v) == \A i \in 1..Len(v) : v[i] = 0

\* C10: on a built index an all-zero query makes search_top_k raise and
\* return no ids, and the match request ends with an error.
C10_ZeroQueryRejected ==
    (~IndexUnavailable /\ q_vec # <<>> /\ AllZero(q_vec) /\ pc # "search") =>
        /\ pc = "done"
        /\ search_res.raised = "ValueError"
        /\ search_res.ids = <<>>
        /\ outcome.kind = "error"

\* a zero embedding met a built index
C10_Witness ==
    /\ ~IndexUnavailable
    /\ q_vec # <<>>
    /\ AllZero(q_vec)
    /\ pc = "done"
    /\ outcome.at = "search_top_k"

\* search_top_k has been called and has ended, and the request has taken no
\* further step: the embedding call is its last call
Searched ==
    /\ pc \in {"fetch", "done"}
    /\ calls # <<>>
    /\ calls[Len(calls)] = Call("embed_query", "embed_text", TRUE)

\* positions of the graph's answer that are rows of the index
ValidPositions == {i \in 1..Len(search_res.indices) :
                     /\ 0 <= search_res.indices[i]
                     /\ search_res.indices[i] < Len(vacancy_ids)}

\* C11: a search on a built index asks the graph for min(k, N) neighbours
\* and returns, in the order of the graph's answer, ids[p] for exactly the
\* answered positions p with 0 <= p < N; the others are dropped without an
\* error, so that at most min(k, N) ids come back.
C11_SearchMapsPositions ==
    (~IndexUnavailable /\ Searched /\ search_res.raised = "no") =>
        /\ search_res.asked = Min(request.k_faiss, Len(vacancy_ids))
        /\ Len(search_res.indices) = search_res.asked
        /\ Len(search_res.ids) = Cardinality(ValidPositions)
        /\ Len(search_res.ids) <= Min(request.k_faiss, Len(vacancy_ids))
        /\ \A j \in 1..Len(search_res.ids) :
              \E i \in ValidPositions :
                 /\ Cardinality({h \in ValidPositions : h <= i}) = j
                 /\ search_res.ids[j] = vacancy_ids[search_res.indices[i] + 1]
        /\ top_idx_list = search_res.ids

\* k larger than the index, and the graph padded its answer with -1 in
\* front of a row it found
C11_Witness ==
    /\ ~IndexUnavailable
    /\ search_res.raised = "no"
    /\ request.k_faiss > Len(vacancy_ids)
    /\ search_res.asked = Len(vacancy_ids)
    /\ search_res.indices # <<>>
    /\ search_res.indices[1] = -1
    /\ search_res.ids # <<>>
    /\ Searched
    /\ pc = "fetch"

\* build_faiss has returned
Built == app = "serving"

\* C12: whenever build_faiss has returned, by whichever path, the shared
\* state is (None, []) or an index over N > 0 rows with the N ids of those
\* rows; an index never stands next to an empty or shorter or longer id
\* list, and an id list never next to no index.
C12_IndexAndIdsConsistent ==
    \/ faiss_index = None /\ vacancy_ids = <<>>
    \/ /\ Built
       /\ faiss_index.built
       /\ faiss_index.ntotal > 0
       /\ Len(vacancy_ids) = faiss_index.ntotal
       /\ loaded.raised = "no"
       /\ faiss_index.ntotal = Len(loaded.X)
       /\ vacancy_ids = loaded.ids

\* the load gave vectors and ids, adding them to the index failed
C12_Witness ==
    /\ Built
    /\ FAISS_AVAILABLE
    /\ loaded.called
    /\ loaded.raised = "no"
    /\ loaded.ids # <<>>
    /\ faiss_index = None
    /\ vacancy_ids = <<>>

\* the batch files the loader accepted: both np.load calls went through
Accepted == {i \in 1..Len(VAC_EMBED_DIR.files) :
                /\ VAC_EMBED_DIR.files[i].emb_ok
                /\ VAC_EMBED_DIR.files[i].ind # "unreadable"}

\* the accepted file whose vectors carry the batch number n
FileOf(n) == VAC_EMBED_DIR.files[CHOOSE i \in Accepted :
                                    ParseInt(VAC_EMBED_DIR.files[i].num) = n]

\* position of a row in its vector file
RowPos(v) == IF Len(v) >= 2 THEN v[2] ELSE 1

\* number of rows and of ids a vector file and its id file hold
RowCount(b) == IF b.emb_1d THEN 1 ELSE Len(b.emb)
IdCount(b)  == IF b.ind # "absent" THEN Len(b.ids)
               ELSE IF b.emb_1d THEN Len(b.emb[1]) ELSE Len(b.emb)

\* C14: the rows of a successful load are the rows of the accepted batches
\* in ascending order of the batch NUMBER in the file name (10 after 9),
\* each batch's rows in file order, and the ids follow the same order.
C14_BatchesInNumericOrder ==
    (loaded.called /\ loaded.raised = "no") =>
        /\ \A i, j \in 1..Len(loaded.X) : i < j =>
              \/ loaded.X[i][1] < loaded.X[j][1]
              \/ loaded.X[i][1] = loaded.X[j][1] /\ RowPos(loaded.X[i]) < RowPos(loaded.X[j])
        /\ {loaded.X[i][1] : i \in 1..Len(loaded.X)} \subseteq
              {ParseInt(VAC_EMBED_DIR.files[i].num) : i \in Accepted}
        /\ \A i \in Accepted :
              Cardinality({r \in 1..Len(loaded.X) :
                             loaded.X[r][1] = ParseInt(VAC_EMBED_DIR.files[i].num)})
                = Min(RowCount(VAC_EMBED_DIR.files[i]), IdCount(VAC_EMBED_DIR.files[i]))
        /\ \A i, j \in 1..Len(loaded.ids) :
              (i < j /\ loaded.ids[i] >= 10 /\ loaded.ids[j] >= 10) =>
                 loaded.ids[i] < loaded.ids[j]

\* batch 10 comes before batch 9 in the glob and after it in the matrix
C14_Witness ==
    /\ Built
    /\ loaded.called
    /\ loaded.raised = "no"
    /\ Len(VAC_EMBED_DIR.files) >= 2
    /\ VAC_EMBED_DIR.files[1].num = <<1, 0>>
    /\ VAC_EMBED_DIR.files[2].num = <<9>>
    /\ Len(loaded.X) >= 2
    /\ loaded.X[1][1] = 9
    /\ loaded.X[Len(loaded.X)][1] = 10
    /\ loaded.ids[1] \in {91, 92}

\* C15: every accepted batch contributes min(rows, ids) vectors and as many
\* ids; a successful load has as many rows as ids, and ids[i] is the id
\* stored at the position of row i in its batch (the position itself when
\* there is no id file).
C15_RowsAndIdsPaired ==
    (loaded.called /\ loaded.raised = "no") =>
        /\ Len(loaded.X) = Len(loaded.ids)
        /\ \A i \in 1..Len(loaded.X) :
              LET b == FileOf(loaded.X[i][1])
                  j == RowPos(loaded.X[i])
              IN /\ j <= Min(RowCount(b), IdCount(b))
                 /\ i <= Len(loaded.ids)
                 /\ loaded.ids[i] = IF b.ind = "absent" THEN j - 1 ELSE b.ids[j]

\* a batch with more vectors than ids was cut to its ids, next to a 1-D
\* vector array without id file
C15_Witness ==
    /\ Built
    /\ loaded.called
    /\ loaded.raised = "no"
    /\ \E i, j \in Accepted :
          /\ RowCount(VAC_EMBED_DIR.files[i]) > IdCount(VAC_EMBED_DIR.files[i])
          /\ IdCount(VAC_EMBED_DIR.files[i]) > 0
          /\ VAC_EMBED_DIR.files[j].emb_1d
    /\ Len(loaded.X) = 2

\* C16 as stated: the load fails as a whole only when the directory holds
\* no batch file or every batch failed to load; otherwise it succeeds.
C16_LoadFailsOnlyWithoutBatches ==
    loaded.called =>
        (loaded.raised # "no" <=> (VAC_EMBED_DIR.files = <<>> \/ Accepted = {}))

\* finalist n has a keyword of group g in its text
Has(n, g) == Keywords[g] \cap final[n].kw # {}

\* the calls the classifier issued for this request
ByClassifier == SelectSeq(calls, LAMBDA c : c.by = "determine_seniority_level")

\* the finalists without any keyword, in order
Unmatched == SelectSeq([n \in 1..Len(final) |-> n],
                       LAMBDA n : \A g \in Levels : ~Has(n, g))

\* the classifier loop has run
Classified == pc = "done" /\ final # <<>>

\* C17: a finalist with a keyword gets the label of the first group, in the
\* order Intern, Head, Expert, Advanced, Mid, Entry, that has a keyword in
\* its text, and no model call is made for it; with an Intern and a Head
\* keyword the label is Intern.
C17_KeywordPrecedence ==
    Classified =>
        /\ Len(result) = Len(final)
        /\ \A n \in 1..Len(result) :
              LET l == result[n].seniority_level
              IN /\ Has(n, "Intern") => l = "Intern"
                 /\ (~Has(n, "Intern") /\ Has(n, "Head")) => l = "Head"
                 /\ (~Has(n, "Intern") /\ ~Has(n, "Head") /\ Has(n, "Expert")) => l = "Expert"
                 /\ (~Has(n, "Intern") /\ ~Has(n, "Head") /\ ~Has(n, "Expert")
                       /\ Has(n, "Advanced")) => l = "Advanced"
                 /\ (~Has(n, "Intern") /\ ~Has(n, "Head") /\ ~Has(n, "Expert")
                       /\ ~Has(n, "Advanced") /\ Has(n, "Mid")) => l = "Mid"
                 /\ (~Has(n, "Intern") /\ ~Has(n, "Head") /\ ~Has(n, "Expert")
                       /\ ~Has(n, "Advanced") /\ ~Has(n, "Mid") /\ Has(n, "Entry"))
                      => l = "Entry"
        /\ Len(ByClassifier) <= Len(Unmatched)

\* the only finalist has an Intern and a Head keyword: Intern, no model call
C17_Witness ==
    /\ Classified
    /\ Len(final) = 1
    /\ Has(1, "Intern")
    /\ Has(1, "Head")
    /\ result[1].seniority_level = "Intern"
    /\ ByClassifier = <<>>

\* C18: the classifier loop always ends in a response with one of the six
\* labels per finalist; each finalist without keyword costs exactly one
\* model call and gets a label the answer contains, or Mid when the answer
\* contains none or the call failed.
C18_ClassifierAlwaysLabels ==
    Classified =>
        /\ outcome.kind = "response"
        /\ Len(outcome.result) = Len(final)
        /\ \A n \in 1..Len(outcome.result) :
              /\ outcome.result[n].idx = final[n].idx
              /\ outcome.result[n].seniority_level \in Levels
        /\ Len(ByClassifier) = Len(Unmatched)
        /\ \A k \in 1..Len(ByClassifier) :
              LET c == ByClassifier[k]
                  l == outcome.result[Unmatched[k]].seniority_level
              IN /\ c.fn = "run_text_completion"
                 /\ (~c.ok \/ c.mentions = {}) => l = "Mid"
                 /\ (c.ok /\ c.mentions # {}) => l \in c.mentions

\* one finalist whose model call failed and one whose answer named a label
C18_Witness ==
    /\ Classified
    /\ outcome.kind = "response"
    /\ Len(ByClassifier) = 2
    /\ ~ByClassifier[1].ok
    /\ ByClassifier[2].ok
    /\ ByClassifier[2].mentions # {}
    /\ outcome.result[Unmatched[1]].seniority_level = "Mid"
    /\ outcome.result[Unmatched[2]].seniority_level \in ByClassifier[2].mentions

\* a match request has been taken up
Served == pc # "idle" \/ calls # <<>> \/ outcome.kind # "none"

\* C19: a match request is taken up only after the startup build_faiss call
\* has returned; until then the index and the id list are untouched, and
\* from then on the index is either built or marked not built.
C19_NoRequestBeforeBuild ==
    /\ Served => app = "serving"
    /\ app \in {"validate", "mongo", "seed", "build"} =>
          /\ ~Served
          /\ faiss_index = None /\ vacancy_ids = <<>> /\ loaded = NotLoaded
    /\ app = "serving" =>
          \/ faiss_index.built /\ vacancy_ids # <<>> /\ loaded.called
          \/ faiss_index = None /\ vacancy_ids = <<>>

\* a request searching the index the startup build left
C19_Witness ==
    /\ app = "serving"
    /\ faiss_index.built
    /\ pc = "fetch"
    /\ top_idx_list # <<>>

\* required credentials are missing
CredentialsMissing ==
    ~settings.yandex_folder_id
    \/ (~settings.yandex_api_key /\ ~settings.yandex_iam_token)

\* C20 as stated: with required credentials missing, startup fails with the
\* configuration error and no request is ever served.
C20_MissingCredentialsStopStartup ==
    CredentialsMissing =>
        /\ app \in {"validate", "config_error"}
        /\ ~Served

\* C20 amended: with required credentials missing, startup fails with the
\* configuration error and no request is served when APP_ENV is production;
\* in any other environment startup goes on, and a match request that is
\* served fails at its first model call.
C20_MissingCredentialsStopProduction ==
    CredentialsMissing =>
        /\ settings.app_env = "production" =>
              app \in {"validate", "config_error"} /\ ~Served
        /\ settings.app_env # "production" => app # "config_error"
        /\ pc = "done" =>
              /\ outcome.kind = "error"
              /\ calls = <<Call("preprocess_resume", "run_text_completion", FALSE)>>

\* production without folder id: startup has failed with the configuration error
C20_Witness ==
    /\ CredentialsMissing
    /\ settings.app_env = "production"
    /\ app = "config_error"

\* ------------------------------------------------------------------ C21
NarrowingCalls(by) == {i \in 1..Len(calls) : calls[i].by = by}

\* C21: within one match request the narrowing model is called at most once
\* for stage 1 and at most once for stage 2; the stage-2 call directly follows
\* a stage-1 call that returned, the records it lists are exactly the stage-1
\* survivors, themselves records the stage-1 call listed; and a narrowing call
\* that raised is the last call of the request
C21_NarrowingCalledOncePerStage ==
    /\ Cardinality(NarrowingCalls("stage1_select")) <= 1
    /\ Cardinality(NarrowingCalls("stage2_select")) <= 1
    /\ \A i \in NarrowingCalls("stage2_select") :
          /\ i > 1
          /\ calls[i - 1].by = "stage1_select"
          /\ calls[i - 1].ok
          /\ calls[i].input = IdxOf(stage2)
          /\ Range(calls[i].input) \subseteq Range(calls[i - 1].input)
    /\ \A i \in NarrowingCalls("stage1_select") \cup NarrowingCalls("stage2_select") :
          ~calls[i].ok => i = Len(calls) /\ pc = "done" /\ outcome.kind = "error"

\* a request whose stage-2 call raised after stage 1 had kept fewer records
\* than it was given
C21_Witness ==
    /\ pc = "done"
    /\ outcome.kind = "error"
    /\ outcome.at = "stage2_select"
    /\ Len(stage2) < Len(ordered)
    /\ Cardinality(NarrowingCalls("stage1_select")) = 1
    /\ Cardinality(NarrowingCalls("stage2_select")) = 1

\* ------------------------------------------------------------------ C27
\* s can be obtained from t by deleting elements
RECURSIVE IsSubsequence(_, _)
IsSubsequence(s, t) ==
    IF s = <<>> THEN TRUE
    ELSE IF t = <<>> THEN FALSE
    ELSE IF Head(s) = Head(t) THEN IsSubsequence(Tail(s), Tail(t))
    ELSE IsSubsequence(s, Tail(t))

\* C27: in every response the idx values of result form a subsequence of
\* top_idx, in the same relative order, and each of them is the idx of a
\* record the fetch of this request returned
C27_ResultIsSubsequenceOfTopIdx ==
    (pc = "done" /\ outcome.kind = "response") =>
        /\ IsSubsequence(IdxOf(outcome.result), outcome.top_idx)
        /\ Range(IdxOf(outcome.result)) \subseteq Range(IdxOf(ordered))
        /\ \A n \in 1..Len(outcome.result) : InStore(outcome.result[n].idx)

\* a response whose two results are the first and the third of three top ids
C27_Witness ==
    /\ pc = "done"
    /\ outcome.kind = "response"
    /\ Len(outcome.top_idx) = 3
    /\ IdxOf(outcome.result) = <<outcome.top_idx[1], outcome.top_idx[3]>>
    /\ outcome.top_idx[1] > outcome.top_idx[3]

\* ------------------------------------------------------------------ C28
\* C28: in every response every id of the stage1 field is the idx of a record
\* that stage 1 was given, hence an element of top_idx; an id the model
\* returned that is not the idx of such a record does not appear
C28_Stage1FieldWithinCandidates ==
    (pc = "done" /\ outcome.kind = "response") =>
        /\ outcome.stage1 \subseteq Range(IdxOf(ordered))
        /\ outcome.stage1 \subseteq Range(outcome.top_idx)

\* ------------------------------------------------------------------ C29
\* C29: at each stage, if the id list parsed from the model's answer holds the
\* idx of at least one record the stage was given, every survivor of the
\* stage is a record the model listed: the prefix fallback applies only when
\* the model listed no usable id
C29_FallbackOnlyWithoutUsableIds ==
    /\ pc = "stage2" =>
          (Range(selected) \cap Range(IdxOf(ordered)) # {} =>
              Range(IdxOf(stage2)) \subseteq Range(selected))
    /\ pc = "classify" =>
          (Range(selected) \cap Range(IdxOf(stage2)) # {} =>
              Range(IdxOf(final)) \subseteq Range(selected))

\* ------------------------------------------------------------------ C26
\* limited requests of a client that were forwarded and arrived in (t - window, t]
InWindow(times, t) ==
    Cardinality({k \in 1..Len(times) : times[k] > t - window_seconds /\ times[k] <= t})

Invalid(text) == text.len = 0 \/ text.blank \/ text.len > MaxTextLength

C24_DeleteLeavesNothing ==
    \A i \in 1..MaxRequests :
        (reqs[i].op = "delete_session" /\ reqs[i].pc = "done" /\ reqs[i].status = 200) =>
            /\ find_by_id(sessions, reqs[i].sid) = NoDoc
            /\ messages[reqs[i].sid].count = 0

\* ------------------------------------------------------------------ C25
\* get_profile has built a profile for its session: it is about to store it
\* or has stored it
ProfileBuilt(i) ==
    reqs[i].op = "get_profile" /\ (reqs[i].pc = "store" \/ reqs[i].detail = "built")

C30_ProfilesKeptPerSession ==
    \A i \in 1..MaxRequests :
        (reqs[i].op = "get_profile" /\ reqs[i].pc = "done" /\ reqs[i].status = 200) =>
            find_by_session_id(profiles, reqs[i].sid).profile = reqs[i].sid

\* ------------------------------------------------------------------ C22
\* C22: a career-development request made while the index is unavailable is
\* answered with an error, never with a response whose future_vacancies is
\* empty because the match failed
C22_CareerFailsWithoutIndex ==
    (career.pc = "done" /\ IndexUnavailable) => career.status >= 400

====
